---------------------------- MODULE Spec2Model ----------------------------
(***************************************************************************)
(* A model of mac-calendar-mcp: CalendarServer (server.py) querying an     *)
(* EKEventStore, whose behaviour is taken from the repository's store      *)
(* double, MockEKEventStore (tests/mocks/mock_eventkit.py).                *)
(*                                                                         *)
(* Text is a sequence of one-character strings, so that lower() and the    *)
(* substring test `in` are computed.  A calendar date is a day number      *)
(* (timedelta(days=n) adds n to it); a datetime is a day number with the   *)
(* hour, minute, second and microsecond fields of Python's datetime.       *)
(***************************************************************************)
EXTENDS Integers, Sequences, FiniteSets, TLC

VARIABLES
    calendars,       \* MockEKEventStore._calendars: sequence of calendar titles
    events,          \* MockEKEventStore._events: sequence of raw events
    reminders,       \* MockEKEventStore._reminders: sequence of raw reminders
    access_granted,  \* CalendarServer.access_granted
    today,           \* the day number datetime.now() falls on
    call             \* the tool call being answered: its arguments and outcome

vars == <<calendars, events, reminders, access_granted, today, call>>

-----------------------------------------------------------------------------
(* Bounds of the model. *)

MaxDay == 2
MaxEvents == 2
MaxReminders == 1
MaxCalendars == 2
MaxTasks == 2

-----------------------------------------------------------------------------
(* Python values. *)

None == [kind |-> "None"]

\* A str argument holding a date: "", a text fromisoformat rejects
\* ("invalid-date"), "YYYY-MM-DD", or "YYYY-MM-DDTHH:MM:SS[.ffffff]".
EmptyStr == [form |-> "empty", kind |-> "str"]
MalformedStr == [form |-> "malformed", kind |-> "str"]
DateStr(d) == [day |-> d, form |-> "date", kind |-> "str"]
DateTimeStr(d, t) == [day |-> d, form |-> "datetime", kind |-> "str", time |-> t]

\* A str that holds text: the sequence of its characters.
Str(t) == [kind |-> "text", text |-> t]

\* bool(x) of an Optional[str] or Optional[List]: None, "" and [] are false.
Truthy(x) ==
    /\ x # None
    /\ (x.kind = "str" => x.form # "empty")
    /\ (x.kind = "text" => Len(x.text) > 0)
    /\ (x.kind = "list" => Len(x.items) > 0)

List(s) == [items |-> s, kind |-> "list"]

\* Times of day <<hour, minute, second, microsecond>>.
Midnight == <<0, 0, 0, 0>>
SubSecond == <<0, 0, 0, 500000>>
Morning == <<9, 30, 0, 0>>
LastSecond == <<23, 59, 59, 0>>
EndOfDay == <<23, 59, 59, 999999>>

Datetime(d, t) ==
    [day |-> d, hour |-> t[1], microsecond |-> t[4], minute |-> t[2], second |-> t[3]]

\* datetime.replace(hour=.., minute=.., second=.., microsecond=..)
Replace(dt, t) == Datetime(dt.day, t)

\* datetime.fromisoformat: ValueError on a text that is no ISO date.
FromIsoFormat(s) ==
    CASE s.form = "date" -> [dt |-> Datetime(s.day, Midnight), ok |-> TRUE]
      [] s.form = "datetime" -> [dt |-> Datetime(s.day, s.time), ok |-> TRUE]
      [] OTHER -> [ok |-> FALSE]

\* datetime.timestamp(), as <<whole seconds, microseconds>>.
Timestamp(dt) ==
    <<dt.day * 86400 + dt.hour * 3600 + dt.minute * 60 + dt.second, dt.microsecond>>

TsLE(a, b) == a[1] < b[1] \/ (a[1] = b[1] /\ a[2] <= b[2])
TsLT(a, b) == a[1] < b[1] \/ (a[1] = b[1] /\ a[2] < b[2])

\* datetime.fromtimestamp(ts)
FromTimestamp(ts) ==
    [day |-> ts[1] \div 86400, hour |-> (ts[1] % 86400) \div 3600, microsecond |-> ts[2],
        minute |-> (ts[1] % 3600) \div 60, second |-> ts[1] % 60]

\* datetime.isoformat(): always carries the time.
IsoFormat(dt) ==
    DateTimeStr(dt.day, <<dt.hour, dt.minute, dt.second, dt.microsecond>>)

\* hour == 0 and minute == 0 and second == 0 (the microsecond is not read)
IsZeroHMS(dt) == dt.hour = 0 /\ dt.minute = 0 /\ dt.second = 0

-----------------------------------------------------------------------------
(* Date range resolution of get_events and of get_reminders. *)

\* _get_events, "Parse dates": the resolved [start_dt, end_dt], or the
\* ValueError of fromisoformat.
EventsRange(start_date, end_date, days_ahead, now_day) ==
    LET sp == IF Truthy(start_date) THEN FromIsoFormat(start_date)
              ELSE [dt |-> Datetime(now_day, Midnight), ok |-> TRUE]
    IN  IF ~sp.ok THEN [ok |-> FALSE]
        ELSE
        LET start_dt == IF Truthy(start_date) /\ IsZeroHMS(sp.dt)
                        THEN Replace(sp.dt, Midnight) ELSE sp.dt
            ep == IF Truthy(end_date) THEN FromIsoFormat(end_date) ELSE [ok |-> TRUE]
        IN  IF ~ep.ok THEN [ok |-> FALSE]
            ELSE
            LET end_dt ==
                  IF Truthy(end_date)
                  THEN IF ep.dt.day = start_dt.day \/ IsZeroHMS(ep.dt)
                       THEN Replace(ep.dt, EndOfDay) ELSE ep.dt
                  ELSE Replace([start_dt EXCEPT !.day = @ + days_ahead], EndOfDay)
            IN  [end_dt |-> end_dt, ok |-> TRUE, start_dt |-> start_dt]

\* _get_reminders, "Parse dates (similar to events)".
RemindersRange(start_date, end_date, days_ahead, now_day) ==
    LET sp == IF Truthy(start_date) THEN FromIsoFormat(start_date)
              ELSE [dt |-> Datetime(now_day, Midnight), ok |-> TRUE]
    IN  IF ~sp.ok THEN [ok |-> FALSE]
        ELSE
        LET start_dt == Replace(sp.dt, Midnight)
            ep == IF Truthy(end_date) THEN FromIsoFormat(end_date) ELSE [ok |-> TRUE]
        IN  IF ~ep.ok THEN [ok |-> FALSE]
            ELSE
            LET end_dt ==
                  IF Truthy(end_date)
                  THEN IF IsZeroHMS(ep.dt) THEN Replace(ep.dt, EndOfDay) ELSE ep.dt
                  ELSE Replace([start_dt EXCEPT !.day = @ + days_ahead], EndOfDay)
            IN  [end_dt |-> end_dt, ok |-> TRUE, start_dt |-> start_dt]

-----------------------------------------------------------------------------
(* Text: lower() and the substring test. *)

LowerChar(c) ==
    CASE c = "A" -> "a"
      [] c = "B" -> "b"
      [] OTHER -> c

\* str.lower()
Lower(s) == [i \in 1..Len(s) |-> LowerChar(s[i])]

\* sub in s
Contains(sub, s) ==
    \E i \in 0..(Len(s) - Len(sub)) :
        \A j \in 1..Len(sub) : s[i + j] = sub[j]

\* str(x or "") of an Optional[str]: the characters
OrEmpty(x) == IF x = None THEN <<>> ELSE x.text

-----------------------------------------------------------------------------
(* EventKit constants, as the store double defines them. *)

EKParticipantStatusUnknown == 0
EKParticipantStatusPending == 1
EKParticipantStatusAccepted == 2
EKParticipantStatusDeclined == 3
EKParticipantStatusTentative == 4
EKEventAvailabilityBusy == 0
EKEventAvailabilityFree == 1

\* CalendarServer.get_rsvp_status of a participant's raw status code
get_rsvp_status(status) ==
    CASE status = EKParticipantStatusAccepted -> "Accepted"
      [] status = EKParticipantStatusDeclined -> "Declined"
      [] status = EKParticipantStatusTentative -> "Tentative"
      [] status = EKParticipantStatusPending -> "Pending"
      [] status = EKParticipantStatusUnknown -> "Unknown"
      [] OTHER -> "Unknown"

-----------------------------------------------------------------------------
(* The store double. *)

\* MockEKParticipant
Participant(name, email, status, is_current_user) ==
    [email |-> email, is_current_user |-> is_current_user, name |-> name, status |-> status]

\* MockEKEvent; availability is the raw code, and availability_raises says
\* that reading it throws.
Event(title, start, end, calendar, notes, attendees, is_all_day, location, availability, availability_raises) ==
    [attendees |-> attendees, availability |-> availability,
        availability_raises |-> availability_raises, calendar |-> calendar, end |-> end,
        is_all_day |-> is_all_day, location |-> location, notes |-> notes, start |-> start,
        title |-> title]

\* eventsMatchingPredicate with exclusive bounds (< and > for <= and >=).
eventsMatchingPredicateExclusive(evs, start_ts, end_ts, cals) ==
    LET calendar_titles == {cals[i] : i \in 1..Len(cals)}
        matches(e) ==
            /\ TsLT(Timestamp(e.start), end_ts)
            /\ TsLT(start_ts, Timestamp(e.end))
            /\ e.calendar \in calendar_titles
    IN  SelectSeq(evs, matches)

\* MockEKEventStore.eventsMatchingPredicate_: the events overlapping
\* [start_ts, end_ts] whose calendar title is among the predicate's calendars,
\* in the order of _events.
eventsMatchingPredicate(evs, start_ts, end_ts, cals) ==
    LET calendar_titles == {cals[i] : i \in 1..Len(cals)}
        matches(e) ==
            /\ TsLE(Timestamp(e.start), end_ts)
            /\ TsLE(start_ts, Timestamp(e.end))
            /\ e.calendar \in calendar_titles
    IN  SelectSeq(evs, matches)

\* FilterCalendars testing "calendar_names is not None" for "calendar_names":
\* an empty list then selects no calendar.
FilterCalendarsNotNone(cals, calendar_names) ==
    IF calendar_names # None
    THEN LET names == {calendar_names.items[i] : i \in 1..Len(calendar_names.items)}
             listed(c) == c \in names
         IN  SelectSeq(cals, listed)
    ELSE cals

\* FilterCalendars without the test of the titles: every calendar is selected.
FilterCalendarsAll(cals, calendar_names) == cals

\* "if calendar_names: calendars = [c for c in calendars if c.title() in calendar_names]"
FilterCalendars(cals, calendar_names) ==
    IF Truthy(calendar_names)
    THEN LET names == {calendar_names.items[i] : i \in 1..Len(calendar_names.items)}
             listed(c) == c \in names
         IN  SelectSeq(cals, listed)
    ELSE cals

-----------------------------------------------------------------------------
(* _get_events: projection of one raw event. *)

attendee_info(a) ==
    [email |-> OrEmpty(a.email), is_current_user |-> a.is_current_user,
        is_organizer |-> FALSE, name |-> OrEmpty(a.name),
        status |-> get_rsvp_status(a.status)]

\* UserStatus taking the status of the last attendee, current user or not.
UserStatusOfLast(attendees_raw) ==
    LET f[i \in 0..Len(attendees_raw)] ==
            IF i = 0 THEN "Organizer"
            ELSE get_rsvp_status(attendees_raw[i].status)
    IN  f[Len(attendees_raw)]

\* user_status after the loop over attendees_raw: "Organizer" unless an
\* attendee isCurrentUser, and then the status of the last one that is.
UserStatus(attendees_raw) ==
    LET f[i \in 0..Len(attendees_raw)] ==
            IF i = 0 THEN "Organizer"
            ELSE IF attendees_raw[i].is_current_user
                 THEN get_rsvp_status(attendees_raw[i].status)
                 ELSE f[i - 1]
    IN  f[Len(attendees_raw)]

\* event_dict appending each attendee_info at the front of attendees_list and
\* counting the raw attendees that are not the current user.
event_dictFrontInsert(e) ==
    LET n == Len(e.attendees)
        attendees_list == [i \in 1..n |-> attendee_info(e.attendees[n + 1 - i])]
        others == {i \in 1..n : ~e.attendees[i].is_current_user}
    IN  [all_day |-> e.is_all_day, attendee_count |-> Cardinality(others),
        attendees |-> attendees_list, calendar |-> e.calendar,
        end_date_str |-> IsoFormat(FromTimestamp(Timestamp(e.end))),
        location |-> OrEmpty(e.location), notes |-> OrEmpty(e.notes),
        start_date_str |-> IsoFormat(FromTimestamp(Timestamp(e.start))),
        title |-> OrEmpty(e.title), user_rsvp_status |-> UserStatus(e.attendees)]

\* The dictionary of one event; its meeting_url and organizer entries, which
\* no filter reads, are left out.
event_dict(e) ==
    LET attendees_list == [i \in 1..Len(e.attendees) |-> attendee_info(e.attendees[i])]
    IN  [all_day |-> e.is_all_day, attendee_count |-> Len(attendees_list),
        attendees |-> attendees_list, calendar |-> e.calendar,
        end_date_str |-> IsoFormat(FromTimestamp(Timestamp(e.end))),
        location |-> OrEmpty(e.location), notes |-> OrEmpty(e.notes),
        start_date_str |-> IsoFormat(FromTimestamp(Timestamp(e.start))),
        title |-> OrEmpty(e.title), user_rsvp_status |-> UserStatus(e.attendees)]

-----------------------------------------------------------------------------
(* _get_events: the post-processing filters, in the order of the code. *)

\* FilterAllDay building its list by inserting at the front.
FilterAllDayFrontInsert(result, all_day_only) ==
    IF all_day_only
    THEN LET f[i \in 0..Len(result)] ==
                 IF i = 0 THEN <<>>
                 ELSE IF result[i].all_day THEN <<result[i]>> \o f[i - 1]
                      ELSE f[i - 1]
         IN  f[Len(result)]
    ELSE result

\* "if all_day_only: result = [e for e in result if e["all_day"]]"
FilterAllDay(result, all_day_only) ==
    IF all_day_only
    THEN LET keep(d) == d.all_day IN SelectSeq(result, keep)
    ELSE result

\* FilterBusy with "except: pass": an event whose availability throws is dropped.
FilterBusyFailClosed(result, fetched, busy_only) ==
    IF busy_only
    THEN LET f[i \in 0..Len(fetched)] ==
                 IF i = 0 THEN <<>>
                 ELSE IF /\ i <= Len(result)
                         /\ ~fetched[i].availability_raises
                         /\ fetched[i].availability = EKEventAvailabilityBusy
                      THEN Append(f[i - 1], result[i])
                      ELSE f[i - 1]
         IN  f[Len(fetched)]
    ELSE result

\* "if busy_only:": for i, event in enumerate(events), with i < len(result),
\* result[i] is appended when events[i] is busy or its availability throws.
FilterBusy(result, fetched, busy_only) ==
    IF busy_only
    THEN LET f[i \in 0..Len(fetched)] ==
                 IF i = 0 THEN <<>>
                 ELSE IF /\ i <= Len(result)
                         /\ \/ fetched[i].availability_raises
                            \/ fetched[i].availability = EKEventAvailabilityBusy
                      THEN Append(f[i - 1], result[i])
                      ELSE f[i - 1]
         IN  f[Len(fetched)]
    ELSE result

\* FilterAttendeeName matching the pattern as given, without lower(), and
\* against the name only.
FilterAttendeeNameExact(result, attendee_name_pattern) ==
    IF Truthy(attendee_name_pattern)
    THEN LET keep(d) == \E i \in 1..Len(d.attendees) :
                            Contains(attendee_name_pattern.text, d.attendees[i].name)
         IN  SelectSeq(result, keep)
    ELSE result

\* "if attendee_name_pattern:"
FilterAttendeeName(result, attendee_name_pattern) ==
    IF Truthy(attendee_name_pattern)
    THEN LET pattern_lower == Lower(attendee_name_pattern.text)
             keep(d) == \E i \in 1..Len(d.attendees) :
                            \/ Contains(pattern_lower, Lower(d.attendees[i].name))
                            \/ Contains(pattern_lower, Lower(d.attendees[i].email))
         IN  SelectSeq(result, keep)
    ELSE result

\* "if attendee_status_filter:"
FilterAttendeeStatus(result, attendee_status_filter) ==
    IF Truthy(attendee_status_filter)
    THEN LET labels == {attendee_status_filter.items[i] :
                            i \in 1..Len(attendee_status_filter.items)}
             keep(d) == \E i \in 1..Len(d.attendees) : d.attendees[i].status \in labels
         IN  SelectSeq(result, keep)
    ELSE result

\* The arguments of get_events.
EventArgs(start_date, end_date, calendar_names, days_ahead, attendee_name_pattern, attendee_status_filter, all_day_only, busy_only) ==
    [all_day_only |-> all_day_only, attendee_name_pattern |-> attendee_name_pattern,
        attendee_status_filter |-> attendee_status_filter, busy_only |-> busy_only,
        calendar_names |-> calendar_names, days_ahead |-> days_ahead, end_date |-> end_date,
        start_date |-> start_date]

\* _get_events(): what the call raises or returns over a store holding the
\* calendars cals and the events evs, on the day now_day.
get_events(a, cals, evs, now_day) ==
    LET range == EventsRange(a.start_date, a.end_date, a.days_ahead, now_day)
    IN  IF ~range.ok THEN [raised |-> TRUE]
        ELSE
        LET selected == FilterCalendars(cals, a.calendar_names)
            fetched == eventsMatchingPredicate(
                           evs, Timestamp(range.start_dt), Timestamp(range.end_dt), selected)
            projected == [i \in 1..Len(fetched) |-> event_dict(fetched[i])]
            r1 == FilterAllDay(projected, a.all_day_only)
            r2 == FilterBusy(r1, fetched, a.busy_only)
            r3 == FilterAttendeeName(r2, a.attendee_name_pattern)
            r4 == FilterAttendeeStatus(r3, a.attendee_status_filter)
        IN  [end_dt |-> range.end_dt, fetched |-> fetched, raised |-> FALSE, result |-> r4,
            start_dt |-> range.start_dt]

-----------------------------------------------------------------------------
(* get_reminders. *)

\* MockEKDateComponents: hour, minute and second are -1 when unset; valid is
\* FALSE when datetime(year, month, day, ...) rejects the components.
DateComponents(valid, day, hour, minute, second) ==
    [day |-> day, hour |-> hour, minute |-> minute, second |-> second, valid |-> valid]

\* MockEKReminder
Reminder(title, calendar, due_date_components, is_completed, completion_date, priority, notes) ==
    [calendar |-> calendar, completion_date |-> completion_date, due |-> due_date_components,
        is_completed |-> is_completed, notes |-> notes, priority |-> priority,
        title |-> title]

\* MockEKEventStore.fetchRemindersMatchingPredicate_completion_: the reminders
\* whose calendar title is among the predicate's calendars, in store order.
fetchRemindersMatchingPredicate(rems, cals) ==
    LET calendar_titles == {cals[i] : i \in 1..Len(cals)}
        matches(r) == r.calendar \in calendar_titles
    IN  SelectSeq(rems, matches)

\* "x if x != -1 else 0"
UnsetToZero(x) == IF x = -1 THEN 0 ELSE x

\* datetime(year, month, day, hour, minute, second) of the due components
DueDatetime(due) ==
    Datetime(due.day, <<UnsetToZero(due.hour), UnsetToZero(due.minute),
                        UnsetToZero(due.second), 0>>)

priority_map(priority) ==
    CASE priority = 0 -> "None"
      [] priority = 1 -> "High"
      [] priority = 5 -> "Medium"
      [] priority = 9 -> "Low"
      [] OTHER -> "None"

\* ReminderStep without the test of include_completed.
ReminderStepKeepCompleted(r, a, start_dt, end_dt) ==
    IF r.due # None
    THEN IF ~r.due.valid THEN [due_date_str |-> None, kept |-> TRUE]
         ELSE LET due_dt == DueDatetime(r.due)
              IN  IF \/ TsLT(Timestamp(due_dt), Timestamp(start_dt))
                     \/ TsLT(Timestamp(end_dt), Timestamp(due_dt))
                  THEN [kept |-> FALSE]
                  ELSE [due_date_str |-> IsoFormat(due_dt), kept |-> TRUE]
    ELSE IF Truthy(a.start_date) \/ Truthy(a.end_date) THEN [kept |-> FALSE]
         ELSE [due_date_str |-> None, kept |-> TRUE]

\* ReminderStep skipping a reminder without due date only when start_date is
\* given.
ReminderStepStartOnly(r, a, start_dt, end_dt) ==
    IF ~a.include_completed /\ r.is_completed THEN [kept |-> FALSE]
    ELSE IF r.due # None
    THEN IF ~r.due.valid THEN [due_date_str |-> None, kept |-> TRUE]
         ELSE LET due_dt == DueDatetime(r.due)
              IN  IF \/ TsLT(Timestamp(due_dt), Timestamp(start_dt))
                     \/ TsLT(Timestamp(end_dt), Timestamp(due_dt))
                  THEN [kept |-> FALSE]
                  ELSE [due_date_str |-> IsoFormat(due_dt), kept |-> TRUE]
    ELSE IF Truthy(a.start_date) THEN [kept |-> FALSE]
         ELSE [due_date_str |-> None, kept |-> TRUE]

\* ReminderStep without the comparison of the due date with the range.
ReminderStepAnyDue(r, a, start_dt, end_dt) ==
    IF ~a.include_completed /\ r.is_completed THEN [kept |-> FALSE]
    ELSE IF r.due # None
    THEN IF ~r.due.valid THEN [due_date_str |-> None, kept |-> TRUE]
         ELSE [due_date_str |-> IsoFormat(DueDatetime(r.due)), kept |-> TRUE]
    ELSE IF Truthy(a.start_date) \/ Truthy(a.end_date) THEN [kept |-> FALSE]
         ELSE [due_date_str |-> None, kept |-> TRUE]

\* The loop body of _get_reminders for one reminder: kept tells whether a
\* dictionary is appended, and due_date_str its due date.
ReminderStep(r, a, start_dt, end_dt) ==
    IF ~a.include_completed /\ r.is_completed THEN [kept |-> FALSE]
    ELSE IF r.due # None
    THEN IF ~r.due.valid THEN [due_date_str |-> None, kept |-> TRUE]
         ELSE LET due_dt == DueDatetime(r.due)
              IN  IF \/ TsLT(Timestamp(due_dt), Timestamp(start_dt))
                     \/ TsLT(Timestamp(end_dt), Timestamp(due_dt))
                  THEN [kept |-> FALSE]
                  ELSE [due_date_str |-> IsoFormat(due_dt), kept |-> TRUE]
    ELSE IF Truthy(a.start_date) \/ Truthy(a.end_date) THEN [kept |-> FALSE]
         ELSE [due_date_str |-> None, kept |-> TRUE]

reminder_dict(r, due_date_str) ==
    [calendar |-> r.calendar, completion_date_str |->
         IF r.completion_date # None
         THEN IsoFormat(FromTimestamp(Timestamp(r.completion_date)))
         ELSE None, due_date_str |-> due_date_str, is_completed |-> r.is_completed,
             notes |-> OrEmpty(r.notes), priority |-> priority_map(r.priority),
             title |-> OrEmpty(r.title)]

\* The arguments of get_reminders.
ReminderArgs(start_date, end_date, calendar_names, include_completed, days_ahead) ==
    [calendar_names |-> calendar_names, days_ahead |-> days_ahead, end_date |-> end_date,
        include_completed |-> include_completed, start_date |-> start_date]

\* Delivered for a wait without timeout: the list always holds the fetch.
DeliveredWhenever(fetched, in_time) == fetched

\* The list "reminders" as the loop reads it after done.wait(timeout=30):
\* in_time tells whether the store's completion handler has run by then;
\* when it has not, the list is still empty.
Delivered(fetched, in_time) == IF in_time THEN fetched ELSE <<>>

\* _get_reminders(): what the call raises or returns over a store holding the
\* calendars cals and the reminders rems, on the day now_day.
get_reminders(a, cals, rems, now_day, in_time) ==
    LET range == RemindersRange(a.start_date, a.end_date, a.days_ahead, now_day)
    IN  IF ~range.ok THEN [raised |-> TRUE]
        ELSE
        LET selected == FilterCalendars(cals, a.calendar_names)
            fetched == Delivered(fetchRemindersMatchingPredicate(rems, selected), in_time)
            f[i \in 0..Len(fetched)] ==
                IF i = 0 THEN <<>>
                ELSE LET step == ReminderStep(fetched[i], a, range.start_dt, range.end_dt)
                     IN  IF step.kept
                         THEN Append(f[i - 1], reminder_dict(fetched[i], step.due_date_str))
                         ELSE f[i - 1]
        IN  [end_dt |-> range.end_dt, fetched |-> fetched, raised |-> FALSE,
            result |-> f[Len(fetched)], start_dt |-> range.start_dt]

-----------------------------------------------------------------------------
(* search. *)

DefaultDaysAhead == 7
SearchDaysAhead == 30

SearchArgs(query, search_events, search_reminders, start_date, end_date) ==
    [end_date |-> end_date, query |-> query, search_events |-> search_events,
        search_reminders |-> search_reminders, start_date |-> start_date]

\* The get_events call search makes.
SearchEventArgs(a) ==
    EventArgs(a.start_date, a.end_date, None, SearchDaysAhead, None, None, FALSE, FALSE)

\* SearchReminderArgs with the defaults of get_reminders.
SearchReminderArgsDefault(a) ==
    ReminderArgs(a.start_date, a.end_date, None, FALSE, DefaultDaysAhead)

\* The get_reminders call search makes.
SearchReminderArgs(a) ==
    ReminderArgs(a.start_date, a.end_date, None, TRUE, SearchDaysAhead)

\* d["type"] = type
Tag(d, type) == [type |-> type] @@ d

\* search matching the title only, and listing the reminders first.
searchTitleOnly(a, cals, evs, rems, now_day, in_time) ==
    LET query_lower == Lower(a.query.text)
        ev == get_events(SearchEventArgs(a), cals, evs, now_day)
        rm == get_reminders(SearchReminderArgs(a), cals, rems, now_day, in_time)
        hit(d) == Contains(query_lower, Lower(d.title))
        tag_event(s) == [i \in 1..Len(s) |-> Tag(s[i], "event")]
        tag_reminder(s) == [i \in 1..Len(s) |-> Tag(s[i], "reminder")]
    IN  IF a.search_events /\ ev.raised THEN [raised |-> TRUE, reached_reminders |-> FALSE]
        ELSE IF a.search_reminders /\ rm.raised
        THEN [raised |-> TRUE, reached_reminders |-> TRUE]
        ELSE [raised |-> FALSE, reached_reminders |-> a.search_reminders,
              result |->
                  (IF a.search_reminders THEN tag_reminder(SelectSeq(rm.result, hit))
                   ELSE <<>>)
                  \o (IF a.search_events THEN tag_event(SelectSeq(ev.result, hit))
                      ELSE <<>>)]

\* search(): events first, then reminders; an exception of either sub-query
\* propagates.
search(a, cals, evs, rems, now_day, in_time) ==
    LET query_lower == Lower(a.query.text)
        ev == get_events(SearchEventArgs(a), cals, evs, now_day)
        rm == get_reminders(SearchReminderArgs(a), cals, rems, now_day, in_time)
        event_hit(d) == \/ Contains(query_lower, Lower(d.title))
                        \/ Contains(query_lower, Lower(d.notes))
                        \/ Contains(query_lower, Lower(d.location))
        reminder_hit(d) == \/ Contains(query_lower, Lower(d.title))
                           \/ Contains(query_lower, Lower(d.notes))
        tag_event(s) == [i \in 1..Len(s) |-> Tag(s[i], "event")]
        tag_reminder(s) == [i \in 1..Len(s) |-> Tag(s[i], "reminder")]
    IN  IF a.search_events /\ ev.raised THEN [raised |-> TRUE, reached_reminders |-> FALSE]
        ELSE IF a.search_reminders /\ rm.raised
        THEN [raised |-> TRUE, reached_reminders |-> TRUE]
        ELSE [raised |-> FALSE, reached_reminders |-> a.search_reminders,
              result |->
                  (IF a.search_events THEN tag_event(SelectSeq(ev.result, event_hit))
                   ELSE <<>>)
                  \o (IF a.search_reminders
                      THEN tag_reminder(SelectSeq(rm.result, reminder_hit))
                      ELSE <<>>)]

-----------------------------------------------------------------------------
(* get_today_summary. *)

\* datetime.now().strftime("%Y-%m-%d")
TodayStr(now_day) == DateStr(now_day)

\* The get_events call get_today_summary makes.
SummaryEventArgs(now_day) ==
    EventArgs(TodayStr(now_day), TodayStr(now_day), None, DefaultDaysAhead, None, None,
              FALSE, FALSE)

\* The get_reminders call get_today_summary makes.
SummaryReminderArgs(now_day) ==
    ReminderArgs(TodayStr(now_day), TodayStr(now_day), None, FALSE, DefaultDaysAhead)

\* get_today_summary listing the days_ahead days from today, completed
\* reminders included.
get_today_summaryWeek(cals, evs, rems, now_day, in_time) ==
    LET ev == get_events(EventArgs(TodayStr(now_day), None, None, DefaultDaysAhead,
                                   None, None, FALSE, FALSE), cals, evs, now_day)
        rm == get_reminders(ReminderArgs(TodayStr(now_day), None, None, TRUE,
                                         DefaultDaysAhead), cals, rems, now_day, in_time)
    IN  [date |-> TodayStr(now_day), events |-> ev.result,
         events_count |-> Len(ev.result), reminders |-> rm.result,
         reminders_count |-> Len(rm.result)]

\* get_today_summary()
get_today_summary(cals, evs, rems, now_day, in_time) ==
    LET ev == get_events(SummaryEventArgs(now_day), cals, evs, now_day)
        rm == get_reminders(SummaryReminderArgs(now_day), cals, rems, now_day, in_time)
    IN  [date |-> TodayStr(now_day), events |-> ev.result,
         events_count |-> Len(ev.result), reminders |-> rm.result,
         reminders_count |-> Len(rm.result)]

-----------------------------------------------------------------------------
(* The state machine. *)

Idle == [op |-> "idle"]

\* "if not self.access_granted: await self.request_access()": request_access
\* stores the outcome of the handshake, granted, in access_granted.
AccessAfter(flag, granted) == IF flag THEN flag ELSE granted

\* CalendarServer.__init__ over an empty store, on the day now_day.
InitOn(now_days) ==
    /\ calendars = <<>>
    /\ events = <<>>
    /\ reminders = <<>>
    /\ access_granted = FALSE
    /\ today \in now_days
    /\ call = Idle

\* MockEKEventStore.add_calendar
AddCalendar(title) ==
    /\ call = Idle
    /\ Len(calendars) < MaxCalendars
    /\ calendars' = Append(calendars, title)
    /\ UNCHANGED <<events, reminders, access_granted, today, call>>

\* MockEKEventStore.add_event
AddEvent(e) ==
    /\ call = Idle
    /\ Len(events) < MaxEvents
    /\ events' = Append(events, e)
    /\ UNCHANGED <<calendars, reminders, access_granted, today, call>>

\* MockEKEventStore.add_reminder
AddReminder(r) ==
    /\ call = Idle
    /\ Len(reminders) < MaxReminders
    /\ reminders' = Append(reminders, r)
    /\ UNCHANGED <<calendars, events, access_granted, today, call>>

\* CalendarServer.get_events
GetEvents(a) ==
    /\ call = Idle
    /\ \E granted \in BOOLEAN :
           access_granted' = AccessAfter(access_granted, granted)
    /\ call' = [args |-> a, op |-> "get_events", out |-> get_events(a, calendars, events, today)]
    /\ UNCHANGED <<calendars, events, reminders, today>>

\* CalendarServer.get_reminders
GetReminders(a) ==
    /\ call = Idle
    /\ \E granted \in BOOLEAN :
           access_granted' = AccessAfter(access_granted, granted)
    /\ \E in_time \in BOOLEAN :
           call' = [args |-> a, in_time |-> in_time, op |-> "get_reminders",
               out |-> get_reminders(a, calendars, reminders, today, in_time)]
    /\ UNCHANGED <<calendars, events, reminders, today>>

\* CalendarServer.search: get_events, then get_reminders, each with its own
\* access check; the second is not reached when the first raises.
Search(a) ==
    /\ call = Idle
    /\ \E in_time \in BOOLEAN :
        LET out == search(a, calendars, events, reminders, today, in_time)
        IN  /\ call' = [args |-> a, in_time |-> in_time, op |-> "search", out |-> out]
            /\ \E g1, g2 \in BOOLEAN :
                 LET flag1 == IF a.search_events
                              THEN AccessAfter(access_granted, g1) ELSE access_granted
                 IN  access_granted' =
                         IF out.reached_reminders THEN AccessAfter(flag1, g2) ELSE flag1
    /\ UNCHANGED <<calendars, events, reminders, today>>

\* CalendarServer.get_today_summary: get_events, then get_reminders, each with
\* its own access check.
GetTodaySummary ==
    /\ call = Idle
    /\ \E in_time \in BOOLEAN :
           call' = [in_time |-> in_time, op |-> "get_today_summary",
                    out |-> get_today_summary(calendars, events, reminders, today, in_time)]
    /\ \E g1, g2 \in BOOLEAN :
           access_granted' = AccessAfter(AccessAfter(access_granted, g1), g2)
    /\ UNCHANGED <<calendars, events, reminders, today>>

\* call_tool returns the serialized result, or the exception, to the client.
Respond ==
    /\ call # Idle
    /\ call' = Idle
    /\ UNCHANGED <<calendars, events, reminders, access_granted, today>>

-----------------------------------------------------------------------------
(* Date resolution: the queries over every shape of start_date and end_date. *)

Days == 0..MaxDay

DateInputs ==
    {None, EmptyStr, MalformedStr}
    \cup {DateStr(d) : d \in Days}
    \cup {DateTimeStr(d, t) : d \in Days, t \in {Midnight, SubSecond, Morning, EndOfDay}}

DaysAheadInputs == {-1, 0, 1, DefaultDaysAhead}

NextRange ==
    \/ /\ call = Idle
       /\ \E sd \in DateInputs, ed \in DateInputs, da \in DaysAheadInputs :
              GetEvents(EventArgs(sd, ed, None, da, None, None, FALSE, FALSE))
    \/ /\ call = Idle
       /\ \E sd \in DateInputs, ed \in DateInputs, da \in DaysAheadInputs :
              GetReminders(ReminderArgs(sd, ed, None, FALSE, da))
    \/ /\ call = Idle
       /\ \E sd \in DateInputs, ed \in DateInputs, se \in BOOLEAN, sr \in BOOLEAN :
              Search(SearchArgs(Str(<<"a">>), se, sr, sd, ed))
    \/ Respond

SpecRange == InitOn(Days) /\ [][NextRange]_vars

-----------------------------------------------------------------------------
(* Overlap: events around the day boundaries, queried over every range. *)

\* MockEKEvent(title, start, end, calendar) with the constructor's defaults.
PlainEvent(title, start, end, calendar) ==
    Event(Str(title), start, end, calendar, Str(<<>>), <<>>, FALSE, None,
          EKEventAvailabilityBusy, FALSE)

\* The first and the last microsecond of the first two days.
DayEdges == {Datetime(d, t) : d \in {0, 1}, t \in {Midnight, EndOfDay}}

OverlapEvents ==
    {PlainEvent(<<"a">>, p, p, "Work") : p \in DayEdges}
    \cup {PlainEvent(<<"b">>, Datetime(0, Midnight), Datetime(MaxDay, EndOfDay), "Work"),
          PlainEvent(<<"c">>, Datetime(0, Morning), Datetime(0, LastSecond), "Home")}

OverlapStarts ==
    {None, DateTimeStr(0, EndOfDay)} \cup {DateStr(d) : d \in Days}

OverlapEnds ==
    {None, DateTimeStr(1, Morning)} \cup {DateStr(d) : d \in Days}

NextOverlap ==
    \/ /\ call = Idle
       /\ AddCalendar("Work")
    \/ /\ call = Idle
       /\ \E e \in OverlapEvents : AddEvent(e)
    \/ /\ call = Idle
       /\ \E sd \in OverlapStarts, ed \in OverlapEnds, da \in {-1, 1},
             cn \in {None, List(<<"Home">>)} :
              GetEvents(EventArgs(sd, ed, cn, da, None, None, FALSE, FALSE))
    \/ Respond

SpecOverlap == InitOn({0}) /\ [][NextOverlap]_vars

-----------------------------------------------------------------------------
(* Properties of date resolution, checked under SpecRange. *)

\* A date argument fromisoformat accepts.
WellFormed(s) == s.kind = "str" /\ s.form \in {"date", "datetime"}

\* A date argument that is a string and no ISO date.
Malformed(s) == s.kind = "str" /\ s.form \in {"empty", "malformed"}

\* The time of day <<hour, minute, second, microsecond>> of a datetime.
TimeOf(dt) == <<dt.hour, dt.minute, dt.second, dt.microsecond>>

\* C3: the end get_events resolves is the end of the day of start + days_ahead
\* days when end_date is absent; the end of end_date's day when end_date lies
\* on the resolved start's date or its time is exactly midnight; and end_date
\* itself, unchanged, in every other case.
C3_EndOfRange ==
    (/\ call.op = "get_events"
     /\ call.args.start_date = None \/ WellFormed(call.args.start_date)
     /\ call.args.end_date = None \/ WellFormed(call.args.end_date))
    => /\ ~call.out.raised
       /\ LET start_dt == call.out.start_dt
              end_date == call.args.end_date
          IN  call.out.end_dt =
                  IF end_date = None
                  THEN Datetime(start_dt.day + call.args.days_ahead, EndOfDay)
                  ELSE LET given == FromIsoFormat(end_date).dt
                       IN  IF given.day = start_dt.day \/ TimeOf(given) = Midnight
                           THEN Datetime(given.day, EndOfDay)
                           ELSE given

\* C4: get_reminders resolves, for the same start_date, end_date and
\* days_ahead, the range get_events resolves.
C4_SameRange ==
    (call.op = "get_reminders" /\ ~call.out.raised)
    => LET of_events == EventsRange(call.args.start_date, call.args.end_date,
                                    call.args.days_ahead, today)
       IN  /\ of_events.ok
           /\ of_events.start_dt = call.out.start_dt
           /\ of_events.end_dt = call.out.end_dt

\* C5: a call of get_events, get_reminders or search whose start_date or
\* end_date is a malformed date string fails.
C5_MalformedDateFails ==
    (/\ call.op \in {"get_events", "get_reminders", "search"}
     /\ Malformed(call.args.start_date) \/ Malformed(call.args.end_date))
    => call.out.raised

-----------------------------------------------------------------------------
(* Properties of the fetched events, checked under SpecOverlap. *)

\* a is at or before b, field by field.
AtOrBefore(a, b) ==
    LET ka == <<a.day, a.hour, a.minute, a.second, a.microsecond>>
        kb == <<b.day, b.hour, b.minute, b.second, b.microsecond>>
    IN  \/ ka = kb
        \/ \E i \in 1..5 : ka[i] < kb[i] /\ \A j \in 1..(i - 1) : ka[j] = kb[j]

\* No post-filter is asked for.
NoPostFilter(a) ==
    /\ ~a.all_day_only
    /\ ~a.busy_only
    /\ ~Truthy(a.attendee_name_pattern)
    /\ ~Truthy(a.attendee_status_filter)

\* The event belongs to a calendar of the store that the call selects.
InSelectedCalendar(e, a) ==
    /\ \E i \in 1..Len(calendars) : calendars[i] = e.calendar
    /\ Truthy(a.calendar_names)
           => \E i \in 1..Len(a.calendar_names.items) :
                  a.calendar_names.items[i] = e.calendar

\* C1: with no post-filter and start <= end, get_events returns exactly the
\* store's events of the selected calendars with eventStart <= rangeEnd and
\* eventEnd >= rangeStart, both bounds inclusive.
C1_InclusiveOverlap ==
    (/\ call.op = "get_events"
     /\ ~call.out.raised
     /\ NoPostFilter(call.args)
     /\ AtOrBefore(call.out.start_dt, call.out.end_dt))
    => LET overlaps(e) ==
               /\ AtOrBefore(e.start, call.out.end_dt)
               /\ AtOrBefore(call.out.start_dt, e.end)
               /\ InSelectedCalendar(e, call.args)
           expected == SelectSeq(events, overlaps)
       IN  call.out.result = [i \in 1..Len(expected) |-> event_dict(expected[i])]

\* C1, its case: one stored event ends exactly at the range's start and is
\* returned, and another stored event lies outside the range and is not.
C1_Witness ==
    /\ call.op = "get_events"
    /\ ~call.out.raised
    /\ NoPostFilter(call.args)
    /\ AtOrBefore(call.out.start_dt, call.out.end_dt)
    /\ Len(events) = 2
    /\ events[1].end = call.out.start_dt
    /\ ~AtOrBefore(events[2].start, call.out.end_dt)
    /\ call.out.result = <<event_dict(events[1])>>

\* C6: get_events with a negative days_ahead and no end_date resolves an end
\* before its start, raises nothing and returns no event.
C6_NegativeDaysAheadIsEmpty ==
    (/\ call.op = "get_events"
     /\ call.args.end_date = None
     /\ call.args.days_ahead < 0)
    => /\ ~call.out.raised
       /\ ~AtOrBefore(call.out.start_dt, call.out.end_dt)
       /\ call.out.result = <<>>

-----------------------------------------------------------------------------
(* Calendar selection: a store of two calendars queried with every shape of *)
(* calendar_names.                                                          *)

CalendarTitles == {"Work", "Home"}

CalendarEvents ==
    {PlainEvent(<<"a">>, Datetime(0, Morning), Datetime(0, LastSecond), "Work"),
     PlainEvent(<<"b">>, Datetime(0, Morning), Datetime(0, LastSecond), "Home"),
     Event(Str(<<"c">>), Datetime(0, Midnight), Datetime(0, EndOfDay), "Work", None,
           <<>>, TRUE, None, EKEventAvailabilityFree, FALSE)}

CalendarReminders ==
    {Reminder(Str(<<"r">>), "Work", None, FALSE, None, 0, Str(<<>>)),
     Reminder(Str(<<"s">>), "Home", DateComponents(TRUE, 0, -1, -1, -1), TRUE,
              Datetime(0, Morning), 1, None)}

CalendarNamesInputs ==
    {None, List(<<>>), List(<<"Work">>), List(<<"Home", "Work">>), List(<<"Other">>),
     List(<<"">>)}

NextCalendars ==
    \/ /\ call = Idle
       /\ \E t \in CalendarTitles : AddCalendar(t)
    \/ /\ call = Idle
       /\ \E e \in CalendarEvents : AddEvent(e)
    \/ /\ call = Idle
       /\ \E r \in CalendarReminders : AddReminder(r)
    \/ /\ call = Idle
       /\ \E cn \in CalendarNamesInputs, sd \in {None, DateStr(1)},
             all_day_only \in BOOLEAN, busy_only \in BOOLEAN :
              GetEvents(EventArgs(sd, None, cn, 0, None, None, all_day_only, busy_only))
    \/ /\ call = Idle
       /\ \E cn \in CalendarNamesInputs, sd \in {None, DateStr(1)},
             include_completed \in BOOLEAN :
              GetReminders(ReminderArgs(sd, None, cn, include_completed, 0))
    \/ Respond

SpecCalendars == InitOn({0}) /\ [][NextCalendars]_vars

-----------------------------------------------------------------------------
(* Properties of calendar selection, checked under SpecCalendars. *)

\* C2: get_events and get_reminders called with calendar_names=[] return what
\* they return with calendar_names=None, over the same store and with the
\* same other arguments.
C2_EmptyListIsNone ==
    /\ (call.op = "get_events" /\ call.args.calendar_names = List(<<>>))
       => call.out = get_events([call.args EXCEPT !.calendar_names = None],
                                calendars, events, today)
    /\ (call.op = "get_reminders" /\ call.args.calendar_names = List(<<>>))
       => call.out = get_reminders([call.args EXCEPT !.calendar_names = None],
                                   calendars, reminders, today, call.in_time)

\* C2, its case: over a store of two different calendars, get_events with
\* calendar_names=[] returns events of both.
C2_Witness ==
    /\ call.op = "get_events"
    /\ call.args.calendar_names = List(<<>>)
    /\ ~call.out.raised
    /\ \E i, j \in 1..Len(call.out.result) :
           call.out.result[i].calendar # call.out.result[j].calendar

-----------------------------------------------------------------------------
(* Post-filters: events of every availability, with and without attendees, *)
(* queried with every combination of the filters.                           *)

Alice == Participant(Str(<<"A", "b">>), Str(<<"c">>), EKParticipantStatusAccepted, FALSE)
Bob == Participant(None, Str(<<"b", "A">>), EKParticipantStatusDeclined, TRUE)
Me == Participant(Str(<<"m">>), None, EKParticipantStatusTentative, TRUE)
\* A status code that is none of the EKParticipantStatus codes.
InvalidStatusCode == 999
Odd == Participant(Str(<<"o">>), Str(<<>>), InvalidStatusCode, FALSE)

\* An event of the calendar "Work" on day 0.
FilterEvent(title, is_all_day, availability, availability_raises, attendees) ==
    Event(Str(title), Datetime(0, Morning), Datetime(0, LastSecond), "Work", None,
          attendees, is_all_day, None, availability, availability_raises)

FilterEvents ==
    {FilterEvent(<<"1">>, FALSE, EKEventAvailabilityBusy, FALSE, <<>>),
     FilterEvent(<<"2">>, FALSE, EKEventAvailabilityFree, FALSE, <<Alice>>),
     FilterEvent(<<"3">>, TRUE, EKEventAvailabilityBusy, FALSE, <<Alice, Bob>>),
     FilterEvent(<<"4">>, TRUE, EKEventAvailabilityFree, FALSE, <<>>),
     FilterEvent(<<"5">>, FALSE, EKEventAvailabilityBusy, TRUE, <<Bob, Me>>),
     FilterEvent(<<"6">>, TRUE, EKEventAvailabilityBusy, TRUE, <<Odd>>),
     FilterEvent(<<"7">>, TRUE, EKEventAvailabilityFree, FALSE, <<Me, Alice>>),
     FilterEvent(<<"8">>, FALSE, EKEventAvailabilityBusy, FALSE, <<Alice>>)}

PatternInputs == {None, Str(<<>>), Str(<<"a", "B">>), Str(<<"c">>)}

StatusFilterInputs ==
    {None, List(<<>>), List(<<"Accepted">>), List(<<"Declined", "Unknown">>)}

NextFilter ==
    \/ /\ call = Idle
       /\ AddCalendar("Work")
    \/ /\ call = Idle
       /\ \E e \in FilterEvents : AddEvent(e)
    \/ /\ call = Idle
       /\ \E pattern \in PatternInputs, status_filter \in StatusFilterInputs,
             all_day_only \in BOOLEAN, busy_only \in BOOLEAN :
              GetEvents(EventArgs(None, None, None, DefaultDaysAhead, pattern,
                                  status_filter, all_day_only, busy_only))
    \/ Respond

SpecFilter == InitOn({0}) /\ [][NextFilter]_vars

-----------------------------------------------------------------------------
(* Properties of the post-filters, checked under SpecFilter. *)

\* The dictionaries of the raw events evs, in order.
Projected(evs) == [i \in 1..Len(evs) |-> event_dict(evs[i])]

\* The raw event's availability is the busy code, or cannot be read.
BusyOrUnreadable(e) ==
    e.availability_raises \/ e.availability = EKEventAvailabilityBusy

\* No attendee filter is asked for.
NoAttendeeFilter(a) ==
    /\ ~Truthy(a.attendee_name_pattern)
    /\ ~Truthy(a.attendee_status_filter)

\* C7: with busy_only and without all_day_only, get_events returns exactly the
\* fetched events whose availability is the busy code or cannot be read.
C7_BusyOnlyFailsOpen ==
    (/\ call.op = "get_events"
     /\ ~call.out.raised
     /\ call.args.busy_only
     /\ ~call.args.all_day_only
     /\ NoAttendeeFilter(call.args))
    => call.out.result = Projected(SelectSeq(call.out.fetched, BusyOrUnreadable))

\* C7, its case: of two fetched events, the one whose availability cannot be
\* read is returned and the free one is dropped.
C7_Witness ==
    /\ call.op = "get_events"
    /\ ~call.out.raised
    /\ call.args.busy_only
    /\ ~call.args.all_day_only
    /\ NoAttendeeFilter(call.args)
    /\ Len(call.out.fetched) = 2
    /\ \E i, j \in 1..2 :
           /\ call.out.fetched[i].availability_raises
           /\ ~BusyOrUnreadable(call.out.fetched[j])
           /\ call.out.result = <<event_dict(call.out.fetched[i])>>

\* C8: with all_day_only and busy_only, get_events returns exactly the fetched
\* events that are all-day and whose own availability is the busy code or
\* cannot be read.
C8_AllDayAndBusy ==
    (/\ call.op = "get_events"
     /\ ~call.out.raised
     /\ call.args.busy_only
     /\ call.args.all_day_only
     /\ NoAttendeeFilter(call.args))
    => LET keep(e) == e.is_all_day /\ BusyOrUnreadable(e)
       IN  call.out.result = Projected(SelectSeq(call.out.fetched, keep))

\* sub occurs in s, letters compared without their case.
ContainsNoCase(sub, s) ==
    \E i \in 0..(Len(s) - Len(sub)) :
        \A j \in 1..Len(sub) : LowerChar(s[i + j]) = LowerChar(sub[j])

\* Some attendee's name or email contains the pattern.
NameMatches(d, pattern) ==
    \E i \in 1..Len(d.attendees) :
        \/ ContainsNoCase(pattern.text, d.attendees[i].name)
        \/ ContainsNoCase(pattern.text, d.attendees[i].email)

\* Some attendee's status label is in the list.
StatusMatches(d, status_filter) ==
    \E i \in 1..Len(d.attendees), k \in 1..Len(status_filter.items) :
        d.attendees[i].status = status_filter.items[k]

\* C9: an attendee_name_pattern keeps an event iff some attendee's name or
\* email contains it case-insensitively, an attendee_status_filter keeps an
\* event iff some attendee's status label is listed, and with both an event
\* is kept iff it passes both; an event without attendees is dropped when
\* either filter is active.
C9_AttendeeFilters ==
    (/\ call.op = "get_events"
     /\ ~call.out.raised
     /\ ~call.args.all_day_only
     /\ ~call.args.busy_only)
    => LET pattern == call.args.attendee_name_pattern
           status_filter == call.args.attendee_status_filter
           keep(d) ==
               /\ Truthy(pattern) => NameMatches(d, pattern)
               /\ Truthy(status_filter) => StatusMatches(d, status_filter)
       IN  /\ call.out.result = SelectSeq(Projected(call.out.fetched), keep)
           /\ ~NoAttendeeFilter(call.args)
                  => \A i \in 1..Len(call.out.result) :
                         call.out.result[i].attendee_count > 0

\* C9, its case: both filters are given; the event without attendees is
\* dropped, and the event kept passes the pattern through one attendee, by a
\* name of another case, and the status list through another attendee.
C9_Witness ==
    /\ call.op = "get_events"
    /\ ~call.out.raised
    /\ ~call.args.all_day_only
    /\ ~call.args.busy_only
    /\ Truthy(call.args.attendee_name_pattern)
    /\ Truthy(call.args.attendee_status_filter)
    /\ Len(call.out.fetched) = 2
    /\ call.out.fetched[1].attendees = <<>>
    /\ call.out.result = <<event_dict(call.out.fetched[2])>>
    /\ LET d == call.out.result[1]
           one(i) == [d EXCEPT !.attendees = <<d.attendees[i]>>]
       IN  /\ \A i \in 1..Len(d.attendees) :
                  ~(/\ NameMatches(one(i), call.args.attendee_name_pattern)
                    /\ StatusMatches(one(i), call.args.attendee_status_filter))
           /\ \A i \in 1..Len(d.attendees) :
                  ~Contains(call.args.attendee_name_pattern.text, d.attendees[i].name)

\* C10: for every event get_events returns, user_rsvp_status is "Organizer"
\* exactly when no attendee of the event is the current user, and is otherwise
\* the status label of an attendee that is; no attendee entry carries the
\* label "Organizer".
C10_UserRsvpStatus ==
    (call.op = "get_events" /\ ~call.out.raised)
    => /\ \A n \in 1..Len(call.out.result) :
              LET d == call.out.result[n]
                  current == {i \in 1..Len(d.attendees) : d.attendees[i].is_current_user}
              IN  /\ d.user_rsvp_status = "Organizer" <=> current = {}
                  /\ current # {}
                         => \E i \in current : d.user_rsvp_status = d.attendees[i].status
                  /\ \A i \in 1..Len(d.attendees) : d.attendees[i].status # "Organizer"
       /\ NoPostFilter(call.args)
              => /\ Len(call.out.result) = Len(call.out.fetched)
                 /\ \A n \in 1..Len(call.out.fetched) :
                        call.out.result[n].user_rsvp_status = "Organizer"
                            <=> \A i \in 1..Len(call.out.fetched[n].attendees) :
                                    ~call.out.fetched[n].attendees[i].is_current_user

\* C10, its case: one returned event has attendees and none is the current
\* user, and another has two attendees that are the current user, with
\* different statuses.
C10_Witness ==
    /\ call.op = "get_events"
    /\ ~call.out.raised
    /\ NoPostFilter(call.args)
    /\ \E m, n \in 1..Len(call.out.result) :
           /\ call.out.result[m].attendee_count > 0
           /\ call.out.result[m].user_rsvp_status = "Organizer"
           /\ \E i, j \in 1..Len(call.out.result[n].attendees) :
                  /\ call.out.result[n].attendees[i].is_current_user
                  /\ call.out.result[n].attendees[j].is_current_user
                  /\ call.out.result[n].attendees[i].status
                         # call.out.result[n].attendees[j].status
                  /\ call.out.result[n].user_rsvp_status # "Organizer"

\* C11: when several attendees of an event are the current user,
\* user_rsvp_status is the status label of the first of them in participant
\* order, and the query does not fail.
C11_FirstCurrentUserWins ==
    (call.op = "get_events" /\ NoPostFilter(call.args))
    => /\ ~call.out.raised
       /\ \A n \in 1..Len(call.out.fetched) :
              LET raw == call.out.fetched[n].attendees
                  current == {i \in 1..Len(raw) : raw[i].is_current_user}
              IN  Cardinality(current) > 1
                      => \E i \in current :
                             /\ \A j \in current : i <= j
                             /\ call.out.result[n].user_rsvp_status
                                    = call.out.result[n].attendees[i].status

\* The dictionary d lists the attendees of the raw event e, in e's order.
SameAttendees(d, e) ==
    /\ d.title = OrEmpty(e.title)
    /\ Len(d.attendees) = Len(e.attendees)
    /\ \A i \in 1..Len(e.attendees) :
           /\ d.attendees[i].name = OrEmpty(e.attendees[i].name)
           /\ d.attendees[i].email = OrEmpty(e.attendees[i].email)
           /\ d.attendees[i].is_current_user = e.attendees[i].is_current_user

\* C12: every event get_events returns, under every combination of the
\* filters, has attendee_count equal to the length of its attendees list, 0
\* for an event without attendees, and lists the attendees of its raw event
\* in participant order.
C12_AttendeeCount ==
    (call.op = "get_events" /\ ~call.out.raised)
    => \A n \in 1..Len(call.out.result) :
           LET d == call.out.result[n]
           IN  /\ d.attendee_count = Len(d.attendees)
               /\ \E k \in 1..Len(call.out.fetched) :
                      SameAttendees(d, call.out.fetched[k])

\* C12, its case: a filtered call returns an event of two different attendees,
\* counted 2, and an unfiltered one would also return an event counted 0.
C12_Witness ==
    /\ call.op = "get_events"
    /\ ~call.out.raised
    /\ Truthy(call.args.attendee_status_filter)
    /\ \E k \in 1..Len(call.out.fetched) : call.out.fetched[k].attendees = <<>>
    /\ \E n \in 1..Len(call.out.result) :
           /\ call.out.result[n].attendee_count = 2
           /\ call.out.result[n].attendees[1] # call.out.result[n].attendees[2]

-----------------------------------------------------------------------------
(* Reminders: one reminder of every shape, queried over every range. *)

\* The components (year, month, day) alone, and with hour and minute.
DueDay(d) == DateComponents(TRUE, d, -1, -1, -1)
DueMorning(d) == DateComponents(TRUE, d, 9, 30, -1)
\* Components datetime() rejects, such as February 30.
DueInvalid == DateComponents(FALSE, 0, -1, -1, -1)

ReminderPool ==
    {Reminder(Str(<<"1">>), "Work", DueMorning(0), FALSE, None, 0, Str(<<>>)),
     Reminder(Str(<<"2">>), "Work", DueDay(0), TRUE, Datetime(0, Morning), 1, None),
     Reminder(Str(<<"3">>), "Work", DueDay(0), TRUE, None, 5, None),
     Reminder(Str(<<"4">>), "Work", None, FALSE, None, 9, None),
     Reminder(Str(<<"5">>), "Work", None, TRUE, Datetime(0, Morning), 0, None),
     Reminder(Str(<<"6">>), "Work", DueDay(1), FALSE, None, 3, None),
     Reminder(Str(<<"7">>), "Work", DueInvalid, FALSE, None, 0, None),
     Reminder(Str(<<"8">>), "Home", None, FALSE, None, 0, None)}

NextReminders ==
    \/ /\ call = Idle
       /\ AddCalendar("Work")
    \/ /\ call = Idle
       /\ \E r \in ReminderPool : AddReminder(r)
    \/ /\ call = Idle
       /\ \E sd \in {None, EmptyStr, DateStr(0), DateStr(1)},
             ed \in {None, DateStr(0), DateTimeStr(1, Morning)},
             cn \in {None, List(<<"Work">>)}, include_completed \in BOOLEAN,
             da \in {-1, 0, DefaultDaysAhead} :
              GetReminders(ReminderArgs(sd, ed, cn, include_completed, da))
    \/ Respond

SpecReminders == InitOn({0}) /\ [][NextReminders]_vars

-----------------------------------------------------------------------------
(* Properties of get_reminders, checked under SpecReminders. *)

\* The reminder belongs to a calendar of the store that the call selects.
ReminderSelected(r, a) == InSelectedCalendar(r, a)

\* The reminder's due date is a date within [start_dt, end_dt].
DueWithin(r, start_dt, end_dt) ==
    /\ r.due # None
    /\ r.due.valid
    /\ AtOrBefore(start_dt, DueDatetime(r.due))
    /\ AtOrBefore(DueDatetime(r.due), end_dt)

\* A dictionary of the result carries the reminder's title.
Returned(r, result) ==
    \E n \in 1..Len(result) : result[n].title = OrEmpty(r.title)

\* C13: without include_completed get_reminders returns no completed
\* reminder; with it, a completed reminder that passes the calendar and date
\* filters is returned with is_completed true and, when it has a completion
\* date, a completion_date_str that is not null.
C13_CompletedReminders ==
    (call.op = "get_reminders" /\ ~call.out.raised)
    => /\ ~call.args.include_completed
              => \A n \in 1..Len(call.out.result) : ~call.out.result[n].is_completed
       /\ (call.args.include_completed /\ call.in_time)
              => \A k \in 1..Len(reminders) :
                     LET r == reminders[k]
                     IN  (/\ r.is_completed
                          /\ ReminderSelected(r, call.args)
                          /\ \/ DueWithin(r, call.out.start_dt, call.out.end_dt)
                             \/ /\ r.due = None
                                /\ call.args.start_date = None
                                /\ call.args.end_date = None)
                         => \E n \in 1..Len(call.out.result) :
                                LET d == call.out.result[n]
                                IN  /\ d.title = OrEmpty(r.title)
                                    /\ d.is_completed
                                    /\ r.completion_date # None
                                           => d.completion_date_str # None

\* C13, its case: a completed reminder due in range, with a completion date,
\* is returned under include_completed.
C13_Witness ==
    /\ call.op = "get_reminders"
    /\ ~call.out.raised
    /\ call.args.include_completed
    /\ Len(reminders) = 1
    /\ reminders[1].is_completed
    /\ reminders[1].completion_date # None
    /\ DueWithin(reminders[1], call.out.start_dt, call.out.end_dt)
    /\ Len(call.out.result) = 1
    /\ call.out.result[1].is_completed
    /\ call.out.result[1].completion_date_str # None

\* C14: a reminder without due date that passes the completion and calendar
\* filters is returned when start_date and end_date are both omitted,
\* whatever days_ahead is, and is not returned when either is supplied.
C14_NoDueDate ==
    (call.op = "get_reminders" /\ ~call.out.raised /\ call.in_time)
    => \A k \in 1..Len(reminders) :
           LET r == reminders[k]
           IN  (/\ r.due = None
                /\ ReminderSelected(r, call.args)
                /\ call.args.include_completed \/ ~r.is_completed)
               => /\ (call.args.start_date = None /\ call.args.end_date = None)
                         => Returned(r, call.out.result)
                  /\ (Truthy(call.args.start_date) \/ Truthy(call.args.end_date))
                         => ~Returned(r, call.out.result)

\* C14, its case: a reminder without due date is returned by a call without
\* dates whose days_ahead is negative.
C14_Witness ==
    /\ call.op = "get_reminders"
    /\ ~call.out.raised
    /\ call.args.start_date = None
    /\ call.args.end_date = None
    /\ call.args.days_ahead < 0
    /\ Len(reminders) = 1
    /\ reminders[1].due = None
    /\ Returned(reminders[1], call.out.result)

-----------------------------------------------------------------------------
(* Search: events and reminders that carry the query in one of their texts, *)
(* today, in three weeks and in six weeks.                                   *)

\* A day within the 30-day lookahead and past the default one, and a day
\* past both.
InThreeWeeks == 20
InSixWeeks == 40

\* A one-hour event of the calendar "Work".
SearchEvent(title, notes, location, day) ==
    Event(title, Datetime(day, Morning), Datetime(day, LastSecond), "Work", notes,
          <<>>, FALSE, location, EKEventAvailabilityBusy, FALSE)

SearchEvents ==
    {SearchEvent(Str(<<"y">>), None, Str(<<"A", "B">>), 0),
     Event(Str(<<"A", "b">>), Datetime(InThreeWeeks, Midnight),
           Datetime(InThreeWeeks, EndOfDay), "Work", None, <<>>, TRUE, None,
           EKEventAvailabilityFree, FALSE),
     SearchEvent(None, Str(<<"a", "B">>), None, InSixWeeks)}

SearchReminders ==
    {Reminder(Str(<<"a", "B">>), "Work", DueDay(0), FALSE, None, 0, None),
     Reminder(Str(<<"r">>), "Work", DueDay(InThreeWeeks), TRUE,
              Datetime(0, Morning), 0, Str(<<"A", "b">>)),
     Reminder(Str(<<"a", "b", "c">>), "Work", DueDay(InSixWeeks), TRUE, None, 0, None)}

QueryInputs == {Str(<<>>), Str(<<"a", "B">>), Str(<<"z">>)}

NextSearch ==
    \/ /\ call = Idle
       /\ AddCalendar("Work")
    \/ /\ call = Idle
       /\ \E e \in SearchEvents : AddEvent(e)
    \/ /\ call = Idle
       /\ \E r \in SearchReminders : AddReminder(r)
    \/ /\ call = Idle
       /\ \E q \in QueryInputs, se \in BOOLEAN, sr \in BOOLEAN,
             sd \in {None, DateStr(1)}, ed \in {None, DateStr(1)} :
              Search(SearchArgs(q, se, sr, sd, ed))
    \/ Respond

SpecSearch == InitOn({0}) /\ [][NextSearch]_vars

-----------------------------------------------------------------------------
(* Properties of search, checked under SpecSearch. *)

\* The query occurs, whatever its case, in the text x, which may be absent.
QueryIn(query, x) == ContainsNoCase(query.text, OrEmpty(x))

\* C15: search returns the events of its event query whose title, notes or
\* location contains the query case-insensitively, each tagged "event",
\* followed by the reminders of its reminder query whose title or notes
\* contains it, each tagged "reminder"; a kind switched off contributes
\* nothing, and every result carries one of the two tags.
C15_SearchResult ==
    (call.op = "search" /\ ~call.out.raised)
    => LET a == call.args
           ev == get_events(SearchEventArgs(a), calendars, events, today).result
           rm == get_reminders(SearchReminderArgs(a), calendars, reminders, today,
                               call.in_time).result
           event_hit(d) == \/ ContainsNoCase(a.query.text, d.title)
                           \/ ContainsNoCase(a.query.text, d.notes)
                           \/ ContainsNoCase(a.query.text, d.location)
           reminder_hit(d) == \/ ContainsNoCase(a.query.text, d.title)
                              \/ ContainsNoCase(a.query.text, d.notes)
           found_events == IF a.search_events THEN SelectSeq(ev, event_hit) ELSE <<>>
           found_reminders ==
               IF a.search_reminders THEN SelectSeq(rm, reminder_hit) ELSE <<>>
           result == call.out.result
       IN  /\ Len(result) = Len(found_events) + Len(found_reminders)
           /\ \A n \in 1..Len(found_events) :
                  result[n] = [type |-> "event"] @@ found_events[n]
           /\ \A n \in 1..Len(found_reminders) :
                  result[Len(found_events) + n]
                      = [type |-> "reminder"] @@ found_reminders[n]
           /\ \A n \in 1..Len(result) :
                  /\ result[n].type \in {"event", "reminder"}
                  /\ result[n].type = "event" => a.search_events
                  /\ result[n].type = "reminder" => a.search_reminders

\* C15, its case: an event found by its location, in another case than the
\* query's, comes before a reminder found by its notes.
C15_Witness ==
    /\ call.op = "search"
    /\ ~call.out.raised
    /\ Len(call.args.query.text) > 0
    /\ Len(call.out.result) = 2
    /\ call.out.result[1].type = "event"
    /\ ~Contains(call.args.query.text, call.out.result[1].location)
    /\ ContainsNoCase(call.args.query.text, call.out.result[1].location)
    /\ ~ContainsNoCase(call.args.query.text, call.out.result[1].title)
    /\ call.out.result[2].type = "reminder"
    /\ ~ContainsNoCase(call.args.query.text, call.out.result[2].title)

\* The start and the end of the lookahead of a search without end_date.
LookaheadStart(a) ==
    Datetime(IF a.start_date = None THEN today ELSE a.start_date.day, Midnight)
LookaheadEnd(a) ==
    Datetime((IF a.start_date = None THEN today ELSE a.start_date.day) + 30, EndOfDay)

\* C16: a search without end_date returns every matching reminder of the 30
\* days from its start, completed ones included, and every matching event
\* overlapping those days, whatever the event's all-day flag, availability
\* and attendees.
C16_SearchSubQueries ==
    (call.op = "search" /\ ~call.out.raised /\ call.args.end_date = None)
    => LET a == call.args
           in_result(d) == \E n \in 1..Len(call.out.result) : call.out.result[n] = d
       IN  /\ (a.search_reminders /\ call.in_time)
                  => \A k \in 1..Len(reminders) :
                         LET r == reminders[k]
                         IN  (/\ InSelectedCalendar(r, [calendar_names |-> None])
                              /\ DueWithin(r, LookaheadStart(a), LookaheadEnd(a))
                              /\ QueryIn(a.query, r.title) \/ QueryIn(a.query, r.notes))
                             => \E n \in 1..Len(call.out.result) :
                                    LET d == call.out.result[n]
                                    IN  /\ d.type = "reminder"
                                        /\ d.title = OrEmpty(r.title)
                                        /\ d.is_completed = r.is_completed
           /\ a.search_events
                  => \A k \in 1..Len(events) :
                         LET e == events[k]
                         IN  (/\ InSelectedCalendar(e, [calendar_names |-> None])
                              /\ AtOrBefore(e.start, LookaheadEnd(a))
                              /\ AtOrBefore(LookaheadStart(a), e.end)
                              /\ \/ QueryIn(a.query, e.title)
                                 \/ QueryIn(a.query, e.notes)
                                 \/ QueryIn(a.query, e.location))
                             => in_result([type |-> "event"] @@ event_dict(e))

\* C16, its case: search returns a completed reminder due in three weeks,
\* which get_reminders with its default arguments does not return.
C16_Witness ==
    /\ call.op = "search"
    /\ ~call.out.raised
    /\ call.args.end_date = None
    /\ Len(call.args.query.text) > 0
    /\ Len(reminders) = 1
    /\ reminders[1].is_completed
    /\ reminders[1].due # None
    /\ reminders[1].due.day > DefaultDaysAhead
    /\ \E n \in 1..Len(call.out.result) :
           /\ call.out.result[n].type = "reminder"
           /\ call.out.result[n].is_completed
    /\ get_reminders(ReminderArgs(None, None, None, FALSE, DefaultDaysAhead),
                     calendars, reminders, today, TRUE).result = <<>>

-----------------------------------------------------------------------------
(* Today's summary: events and reminders of today and of tomorrow, seen on *)
(* either day.                                                              *)

SummaryEvents ==
    {PlainEvent(<<"a">>, Datetime(0, Morning), Datetime(0, LastSecond), "Work"),
     PlainEvent(<<"b">>, Datetime(0, EndOfDay), Datetime(1, Midnight), "Work"),
     PlainEvent(<<"c">>, Datetime(1, Morning), Datetime(1, LastSecond), "Work"),
     PlainEvent(<<"d">>, Datetime(MaxDay, Morning), Datetime(MaxDay, LastSecond), "Work")}

NextSummary ==
    \/ /\ call = Idle
       /\ AddCalendar("Work")
    \/ /\ call = Idle
       /\ \E e \in SummaryEvents : AddEvent(e)
    \/ /\ call = Idle
       /\ \E r \in ReminderPool : AddReminder(r)
    \/ /\ call = Idle
       /\ GetTodaySummary
    \/ Respond

SpecSummary == InitOn({0, 1}) /\ [][NextSummary]_vars

-----------------------------------------------------------------------------
(* Properties of get_today_summary, checked under SpecSummary. *)

\* The date, the counts and the events of the summary: the date is today,
\* each count is the length of its list, and the events are those of the
\* store's calendars overlapping today from 00:00:00 to 23:59:59.999999.
SummaryOfToday(out) ==
    LET overlaps(e) ==
            /\ AtOrBefore(e.start, Datetime(today, EndOfDay))
            /\ AtOrBefore(Datetime(today, Midnight), e.end)
            /\ InSelectedCalendar(e, [calendar_names |-> None])
    IN  /\ out.date = DateStr(today)
        /\ out.events_count = Len(out.events)
        /\ out.reminders_count = Len(out.reminders)
        /\ out.events = Projected(SelectSeq(events, overlaps))

\* The reminder dictionary is due within today.
DueToday(d) ==
    /\ d.due_date_str # None
    /\ d.due_date_str.day = today

\* C17: get_today_summary returns today's date, events_count = len(events)
\* and reminders_count = len(reminders); the events are exactly those
\* overlapping today, and the reminders are incomplete and due within today.
C17_TodaySummary ==
    call.op = "get_today_summary"
    => /\ SummaryOfToday(call.out)
       /\ \A n \in 1..Len(call.out.reminders) :
              /\ ~call.out.reminders[n].is_completed
              /\ DueToday(call.out.reminders[n])

\* C17, amended: as C17, but a reminder of the summary is incomplete and
\* either due within today or without a due date string, which happens when
\* its due-date components cannot be made into a date.
C17_TodaySummaryAmended ==
    call.op = "get_today_summary"
    => /\ SummaryOfToday(call.out)
       /\ \A n \in 1..Len(call.out.reminders) :
              LET d == call.out.reminders[n]
              IN  /\ ~d.is_completed
                  /\ \/ DueToday(d)
                     \/ /\ d.due_date_str = None
                        /\ \E k \in 1..Len(reminders) :
                               /\ reminders[k].title.text = d.title
                               /\ reminders[k].due # None
                               /\ ~reminders[k].due.valid

\* C17, its case: tomorrow, the summary counts the event that ends at
\* tomorrow's first instant and not the event of the day after, over a store
\* whose only reminder is not returned.
C17_Witness ==
    /\ call.op = "get_today_summary"
    /\ today = 1
    /\ Len(events) = 2
    /\ call.out.events_count = 1
    /\ call.out.events[1].end_date_str = IsoFormat(Datetime(1, Midnight))
    /\ Len(reminders) = 1
    /\ call.in_time
    /\ call.out.reminders_count = 0

-----------------------------------------------------------------------------
(* Authorization: the calls as coroutines.  A call runs up to its next      *)
(* await in one step, so that calls started while another waits for its     *)
(* handshake or for its fetch interleave with it.  call holds the calls     *)
(* started so far, in the order of their start.                             *)

\* get_calendars(): one dictionary per calendar of the store, in order.  The
\* calendars of the model are made with the type, colour and source that
\* MockEKCalendar gives by default.
get_calendars(cals) ==
    [i \in 1..Len(cals) |->
        [title |-> cals[i], type |-> "Local", color |-> "#FF0000",
         source |-> "Local"]]

\* The operations, each with the store queries it makes in order: search one
\* per kind switched on, get_today_summary both, request_access none.
AccessOps ==
    {[name |-> "get_events", queries |-> <<"events">>],
     [name |-> "get_reminders", queries |-> <<"reminders">>],
     [name |-> "get_calendars", queries |-> <<"calendars">>],
     [name |-> "search", queries |-> <<>>],
     [name |-> "search", queries |-> <<"events">>],
     [name |-> "search", queries |-> <<"reminders">>],
     [name |-> "search", queries |-> <<"events", "reminders">>],
     [name |-> "get_today_summary", queries |-> <<"events", "reminders">>],
     [name |-> "request_access", queries |-> <<>>]}

\* AfterCheck without the test of access_granted: the query fetches at once.
AfterCheckNever(flag) == "fetch"

\* "if not self.access_granted: await self.request_access()", then
\* "await asyncio.to_thread(...)": what the query awaits next.
AfterCheck(flag) == IF ~flag THEN "handshake" ELSE "fetch"

\* A call that has run up to its first await.  checked is access_granted as
\* its current query's test read it, answered tells that the handshake of its
\* current query has ended and granted how, denied that a handshake of the
\* call has ended without access, and read what its last fetch returned.
StartOf(op, flag) ==
    [name |-> op.name, queries |-> op.queries,
     pc |-> IF op.name = "request_access" THEN "handshake"
            ELSE IF op.queries = <<>> THEN "done" ELSE AfterCheck(flag),
     checked |-> flag, answered |-> FALSE, granted |-> FALSE, denied |-> FALSE,
     read |-> <<>>]

\* The calls started so far.
Tasks(c) == IF c = Idle THEN <<>> ELSE c.tasks

\* What a query of the given kind fetches from the store.
FetchOf(kind, in_time) ==
    CASE kind = "events" ->
             get_events(EventArgs(None, None, None, DefaultDaysAhead, None, None,
                                  FALSE, FALSE), calendars, events, today).result
      [] kind = "reminders" ->
             get_reminders(ReminderArgs(None, None, None, FALSE, DefaultDaysAhead),
                           calendars, reminders, today, in_time).result
      [] OTHER -> get_calendars(calendars)

\* A client starts a call.
Begin(op) ==
    /\ Len(Tasks(call)) < MaxTasks
    /\ call' = [op |-> "session",
                tasks |-> Append(Tasks(call), StartOf(op, access_granted))]
    /\ UNCHANGED <<calendars, events, reminders, access_granted, today>>

\* AfterHandshake for a query that gives up when access is not granted.
AfterHandshakeAbort(name, granted) ==
    IF name = "request_access" \/ ~granted THEN "done" ELSE "fetch"

\* Where a call goes on when its handshake has ended: request_access
\* returns the outcome, a query goes on to its fetch whatever the outcome
\* (the value of "await self.request_access()" is dropped).
AfterHandshake(name, granted) == IF name = "request_access" THEN "done" ELSE "fetch"

\* request_access resumes from "await asyncio.to_thread(_request)" in call i:
\* "self.access_granted = ..." takes the outcome, granted.
HandshakeEnd(i, granted) ==
    /\ call # Idle
    /\ i \in 1..Len(call.tasks)
    /\ call.tasks[i].pc = "handshake"
    /\ access_granted' = granted
    /\ LET t == call.tasks[i]
       IN  call' = [call EXCEPT !.tasks[i] =
                       [t EXCEPT !.pc = AfterHandshake(t.name, granted),
                                 !.answered = TRUE,
                                 !.granted = granted,
                                 !.denied = t.denied \/ ~granted]]
    /\ UNCHANGED <<calendars, events, reminders, today>>

\* Call i resumes from the fetch of its current query; a call with another
\* query left runs up to that query's await.
Fetch(i, in_time) ==
    /\ call # Idle
    /\ i \in 1..Len(call.tasks)
    /\ call.tasks[i].pc = "fetch"
    /\ LET t == call.tasks[i]
           more == Len(t.queries) > 1
       IN  call' = [call EXCEPT !.tasks[i] =
                       [t EXCEPT !.read = FetchOf(Head(t.queries), in_time),
                                 !.queries = Tail(t.queries),
                                 !.pc = IF more THEN AfterCheck(access_granted)
                                        ELSE "done",
                                 !.checked = IF more THEN access_granted ELSE @,
                                 !.answered = IF more THEN FALSE ELSE @]]
    /\ UNCHANGED <<calendars, events, reminders, access_granted, today>>

NextAccess ==
    \/ /\ call = Idle
       /\ calendars = <<>>
       /\ AddCalendar("Work")
    \/ /\ Len(Tasks(call)) < MaxTasks
       /\ \E op \in AccessOps : Begin(op)
    \/ /\ call # Idle
       /\ \E i \in 1..MaxTasks, granted \in BOOLEAN : HandshakeEnd(i, granted)
    \/ /\ call # Idle
       /\ \E i \in 1..MaxTasks, in_time \in BOOLEAN : Fetch(i, in_time)

SpecAccess == InitOn({0}) /\ [][NextAccess]_vars

-----------------------------------------------------------------------------
(* Properties of the authorization, checked under SpecAccess. *)

\* The operations of one data query.
DataQueries == {"get_events", "get_reminders", "get_calendars"}

\* The call is about to fetch, or has fetched.
AtOrPastFetch(t) == t.pc = "fetch" \/ (t.pc = "done" /\ t.queries = <<>>)

\* Every call of a data query that waits for a handshake found access_granted
\* false, and every one at or past its fetch has had a handshake end exactly
\* when it found access_granted false.
HandshakeBeforeFetch(c) ==
    \A i \in 1..Len(Tasks(c)) :
        LET t == Tasks(c)[i]
        IN  t.name \in DataQueries
                => /\ t.pc = "handshake" => ~t.checked
                   /\ AtOrPastFetch(t) => (t.answered <=> ~t.checked)

\* C18: get_events, get_reminders and get_calendars, called while
\* access_granted is false, end a handshake before they read the store, and
\* the handshake's outcome is stored in access_granted; called while it is
\* true, they make no handshake.
C18_HandshakeFirst ==
    [][/\ HandshakeBeforeFetch(call')
       /\ \A i \in 1..Len(Tasks(call)) :
              (Tasks(call)[i].pc = "handshake" /\ Tasks(call')[i].pc # "handshake")
                  => /\ Tasks(call')[i].answered
                     /\ access_granted' = Tasks(call')[i].granted]_vars

\* C18, its case: a get_calendars call that found access_granted false has
\* read the store after a handshake that ended with access, and a get_events
\* call that then found it true has read the store without any.
C18_Witness ==
    /\ Len(Tasks(call)) = 2
    /\ \E i, j \in 1..2 :
           /\ Tasks(call)[i].name = "get_calendars"
           /\ Tasks(call)[i].pc = "done"
           /\ ~Tasks(call)[i].checked
           /\ Tasks(call)[i].answered
           /\ Tasks(call)[i].granted
           /\ Tasks(call)[i].read # <<>>
           /\ access_granted
           /\ Tasks(call)[j].name = "get_events"
           /\ Tasks(call)[j].pc = "done"
           /\ Tasks(call)[j].checked
           /\ ~Tasks(call)[j].answered

\* C19: over every interleaving of the calls, access_granted never goes from
\* true back to false, so that it goes from false to true at most once.
C19_MonotoneAccess == [][access_granted => access_granted']_vars

\* C20: once a handshake has ended without access, no data query starts
\* another handshake.
C20_HandshakeNotRepeated ==
    [][(\E i \in 1..Len(Tasks(call)) : Tasks(call)[i].denied)
           => ~\E j \in 1..Len(Tasks(call')) :
                  /\ Tasks(call')[j].name \in DataQueries
                  /\ Tasks(call')[j].pc = "handshake"
                  /\ j > Len(Tasks(call))]_vars

-----------------------------------------------------------------------------
(* The handshake: request_access step by step.  _request runs on a worker   *)
(* thread, and the store runs the completion handler on a thread of its     *)
(* own, so the handler may run between any two steps of _request, or after  *)
(* it has returned.                                                          *)

EKAuthorizationStatusNotDetermined == 0
EKAuthorizationStatusRestricted == 1
EKAuthorizationStatusDenied == 2
EKAuthorizationStatusAuthorized == 3

\* What EKEventStore.authorizationStatusForEntityType_ may answer.
AuthorizationStatuses ==
    {EKAuthorizationStatusNotDetermined, EKAuthorizationStatusRestricted,
     EKAuthorizationStatusDenied, EKAuthorizationStatusAuthorized}

\* error[0] when the handler delivered an error.
AccessError == Str("error")

\* "return granted[0]": what _request returns, as a one-element sequence.
ResultOf(c) == <<c.granted>>

\* request_access up to "await asyncio.to_thread(_request)", and _request up
\* to "done.wait(timeout=30)": an authorized status returns True at once,
\* any other asks the store for access.  granted, error and done are the
\* cells the handler writes, handler tells whether it is still to run,
\* expired that the wait ended by its timeout, late that the handler ran
\* after that, result what _request returned and out what request_access did.
RequestAccess(status) ==
    /\ call = Idle
    /\ call' = [op |-> "request_access", status |-> status,
                pc |-> IF status = EKAuthorizationStatusAuthorized
                       THEN "assign" ELSE "wait",
                granted |-> FALSE, error |-> None, done |-> FALSE,
                handler |-> IF status = EKAuthorizationStatusAuthorized
                            THEN "none" ELSE "pending",
                expired |-> FALSE, late |-> FALSE,
                result |-> IF status = EKAuthorizationStatusAuthorized
                           THEN <<TRUE>> ELSE <<>>,
                out |-> <<>>]
    /\ UNCHANGED <<calendars, events, reminders, access_granted, today>>

\* completion_handler(g, e), run by the store.
completion_handler(g, e) ==
    /\ call # Idle
    /\ call.handler = "pending"
    /\ call' = [call EXCEPT !.granted = g, !.error = e, !.done = TRUE,
                            !.handler = "ran", !.late = call.expired]
    /\ UNCHANGED <<calendars, events, reminders, access_granted, today>>

\* done.wait(timeout=30) returns: at once when done is set, otherwise at the
\* end of the 30 seconds.  Its return value is dropped.
WaitEnds ==
    /\ call # Idle
    /\ call.pc = "wait"
    /\ call' = [call EXCEPT !.pc = "read", !.expired = ~call.done]
    /\ UNCHANGED <<calendars, events, reminders, access_granted, today>>

\* "if error[0]: print(...)" and "return granted[0]".
ReadGranted ==
    /\ call # Idle
    /\ call.pc = "read"
    /\ call' = [call EXCEPT !.pc = "assign", !.result = ResultOf(call)]
    /\ UNCHANGED <<calendars, events, reminders, today, access_granted>>

\* "self.access_granted = await ..." and "return self.access_granted".
AssignAccess ==
    /\ call # Idle
    /\ call.pc = "assign"
    /\ access_granted' = call.result[1]
    /\ call' = [call EXCEPT !.pc = "returned", !.out = call.result]
    /\ UNCHANGED <<calendars, events, reminders, today>>

\* The client takes the answer; a handler that has not run by then is left
\* out of the model.
ReturnAccess ==
    /\ call # Idle
    /\ call.pc = "returned"
    /\ call' = Idle
    /\ UNCHANGED <<calendars, events, reminders, access_granted, today>>

NextHandshake ==
    \/ /\ call = Idle
       /\ \E status \in AuthorizationStatuses : RequestAccess(status)
    \/ /\ call # Idle
       /\ \E g \in BOOLEAN, e \in {None, AccessError} : completion_handler(g, e)
    \/ WaitEnds
    \/ ReadGranted
    \/ AssignAccess
    \/ ReturnAccess

SpecHandshake == InitOn({0}) /\ [][NextHandshake]_vars

\* C21: when the 30-second wait has ended without the handler having run,
\* request_access returns False and leaves access_granted False, and a
\* handler that runs after request_access has returned changes neither the
\* returned value nor access_granted.
C21_TimeoutIsDenial ==
    [][/\ (call # Idle /\ call.pc = "assign" /\ call.expired /\ AssignAccess)
           => (call'.out = <<FALSE>> /\ ~access_granted')
       /\ (call # Idle /\ call.pc = "returned" /\ call' # Idle)
           => (call'.out = call.out /\ access_granted' = access_granted)]_vars

-----------------------------------------------------------------------------
(* Properties of a handshake that ends without access, checked under        *)
(* SpecAccess.                                                               *)

\* C22: a handshake that ends in denial or timeout makes request_access
\* return False, and the get_events, get_reminders or get_calendars call
\* that made it goes on to its fetch and returns the list the store yields,
\* empty when the store yields nothing.
C22_DenialDoesNotAbort ==
    [][\A i \in 1..Len(Tasks(call)) :
           LET t == Tasks(call)[i]
               u == Tasks(call')[i]
           IN  /\ (t.pc = "handshake" /\ u.pc # "handshake" /\ ~u.granted)
                      => /\ ~access_granted'
                         /\ t.name = "request_access" => u.pc = "done"
                         /\ t.name \in DataQueries
                                => (u.pc = "fetch" /\ u.queries = t.queries)
               /\ (t.name \in DataQueries /\ t.pc = "fetch" /\ t.denied
                   /\ u.pc # "fetch")
                      => /\ u.pc = "done"
                         /\ \E in_time \in BOOLEAN :
                                u.read = FetchOf(Head(t.queries), in_time)
                         /\ (calendars = <<>>) => (u.read = <<>>)]_vars

\* C22, its case: a get_calendars call has returned the calendars of the
\* store after its handshake ended without access.
C22_Witness ==
    \E i \in 1..Len(Tasks(call)) :
        /\ Tasks(call)[i].name = "get_calendars"
        /\ Tasks(call)[i].pc = "done"
        /\ Tasks(call)[i].denied
        /\ ~Tasks(call)[i].granted
        /\ Tasks(call)[i].read = get_calendars(calendars)
        /\ Tasks(call)[i].read # <<>>

-----------------------------------------------------------------------------
(* Properties of the reminders fetch, checked under SpecReminders. *)

-----------------------------------------------------------------------------
(* Properties of the order of the events, checked under SpecFilter. *)

\* s is t with some of its elements left out: matching the elements of s
\* against t from left to right uses up all of s.
IsSubsequence(s, t) ==
    LET matched[i \in 0..Len(t)] ==
            IF i = 0 THEN 0
            ELSE IF matched[i - 1] < Len(s) /\ s[matched[i - 1] + 1] = t[i]
                 THEN matched[i - 1] + 1
                 ELSE matched[i - 1]
    IN  matched[Len(t)] = Len(s)

\* C24: under every combination of all_day_only, busy_only,
\* attendee_name_pattern and attendee_status_filter, the list get_events
\* returns is a subsequence of the fetched events in the store's order: no
\* two events swapped, none twice.
C24_StoreOrderKept ==
    (call.op = "get_events" /\ ~call.out.raised)
        => IsSubsequence(call.out.result, Projected(call.out.fetched))

\* C24, its case: a call with all_day_only, busy_only and a status filter
\* returns two different events.
C24_Witness ==
    /\ call.op = "get_events"
    /\ call.args.all_day_only
    /\ call.args.busy_only
    /\ Truthy(call.args.attendee_status_filter)
    /\ Len(call.out.result) = 2
    /\ call.out.result[1] # call.out.result[2]

-----------------------------------------------------------------------------
(* Properties of a non-empty calendar_names, checked under SpecCalendars. *)

\* The titles of a calendar_names list.
Listed(calendar_names) ==
    {calendar_names.items[i] : i \in 1..Len(calendar_names.items)}

\* The elements of the raw events or reminders seq whose calendar is listed.
OfListed(seq, calendar_names) ==
    LET listed(x) == x.calendar \in Listed(calendar_names)
    IN  SelectSeq(seq, listed)

\* No calendar of the store has a listed title.
NoneListed(calendar_names) ==
    \A i \in 1..Len(calendars) : calendars[i] \notin Listed(calendar_names)

\* C25: with a non-empty calendar_names list, every event of get_events and
\* every reminder of get_reminders is of a calendar with a listed title, the
\* fetch covers every calendar of the store with a listed title, and the
\* result is empty when no calendar of the store has one.
C25_ListedCalendarsOnly ==
    (/\ call.op \in {"get_events", "get_reminders"}
     /\ Truthy(call.args.calendar_names)
     /\ ~call.out.raised)
        => /\ \A i \in 1..Len(call.out.result) :
                  call.out.result[i].calendar \in Listed(call.args.calendar_names)
           /\ call.op = "get_events"
                  => call.out.fetched =
                         OfListed(get_events([call.args EXCEPT !.calendar_names = None],
                                             calendars, events, today).fetched,
                                  call.args.calendar_names)
           /\ (call.op = "get_reminders" /\ call.in_time)
                  => call.out.fetched =
                         OfListed(get_reminders([call.args EXCEPT !.calendar_names = None],
                                                calendars, reminders, today, TRUE).fetched,
                                  call.args.calendar_names)
           /\ NoneListed(call.args.calendar_names) => call.out.result = <<>>

\* C25, its case: over a store of two calendars with an event in each,
\* get_events with calendar_names=["Work"] returns an event and leaves out
\* the one of the other calendar.
C25_Witness ==
    /\ call.op = "get_events"
    /\ call.args.calendar_names = List(<<"Work">>)
    /\ ~call.out.raised
    /\ call.out.result # <<>>
    /\ \E i \in 1..Len(events) : events[i].calendar = "Home"
    /\ \E i \in 1..Len(calendars) : calendars[i] = "Home"
    /\ Len(call.out.fetched) <
           Len(get_events([call.args EXCEPT !.calendar_names = None],
                          calendars, events, today).fetched)

-----------------------------------------------------------------------------
(* convert_time.  A time zone is modelled by its offset from UTC in minutes; *)
(* the zones of the model have had one offset since 1970.                   *)

\* "YYYY-MM-DDTHH:MM:SS[.ffffff]+HH:MM", the offset in minutes.
OffsetDateTimeStr(d, t, utcoffset) ==
    [day |-> d, form |-> "offset-datetime", kind |-> "str", time |-> t,
     utcoffset |-> utcoffset]

\* pytz.timezone(name): UnknownTimeZoneError on a name that is no zone.
timezone(name) ==
    CASE name = "UTC" -> [ok |-> TRUE, utcoffset |-> 0]
      [] name = "Asia/Tokyo" -> [ok |-> TRUE, utcoffset |-> 540]
      [] name = "Asia/Kolkata" -> [ok |-> TRUE, utcoffset |-> 330]
      [] name = "America/Phoenix" -> [ok |-> TRUE, utcoffset |-> -420]
      [] OTHER -> [ok |-> FALSE]

\* datetime.fromisoformat with the tzinfo it reads: aware tells whether the
\* text carries an offset.
FromIsoFormatTz(s) ==
    CASE s.form = "date" ->
             [aware |-> FALSE, dt |-> Datetime(s.day, Midnight), ok |-> TRUE, utcoffset |-> 0]
      [] s.form = "datetime" ->
             [aware |-> FALSE, dt |-> Datetime(s.day, s.time), ok |-> TRUE, utcoffset |-> 0]
      [] s.form = "offset-datetime" ->
             [aware |-> TRUE, dt |-> Datetime(s.day, s.time), ok |-> TRUE,
              utcoffset |-> s.utcoffset]
      [] OTHER -> [ok |-> FALSE]

\* from_tz.localize(dt): the wall-clock fields, read in the zone.
localize(x, utcoffset) == [x EXCEPT !.aware = TRUE, !.utcoffset = utcoffset]

\* dt.astimezone(tz): the same instant, in the zone's wall-clock fields.
astimezone(x, utcoffset) ==
    LET ts == Timestamp(x.dt)
    IN  [x EXCEPT !.dt = FromTimestamp(<<ts[1] + (utcoffset - x.utcoffset) * 60, ts[2]>>),
                  !.utcoffset = utcoffset]

\* datetime.isoformat() of an aware datetime.
IsoFormatTz(x) ==
    OffsetDateTimeStr(x.dt.day, <<x.dt.hour, x.dt.minute, x.dt.second, x.dt.microsecond>>,
                      x.utcoffset)

\* convert_time with dt.replace(tzinfo=...) for dt.astimezone(from_tz): the
\* offset of the text is replaced by the zone's.
convert_timeReplace(datetime_str, from_timezone, to_timezone) ==
    LET from_tz == timezone(from_timezone)
        to_tz == timezone(to_timezone)
        parsed == FromIsoFormatTz(datetime_str)
    IN  IF ~from_tz.ok \/ ~to_tz.ok \/ ~parsed.ok THEN [raised |-> TRUE]
        ELSE LET dt == localize(parsed, from_tz.utcoffset)
                 dt_converted == astimezone(dt, to_tz.utcoffset)
             IN  [converted_datetime |-> IsoFormatTz(dt_converted),
                  from_timezone |-> from_timezone,
                  original_datetime |-> IsoFormatTz(dt),
                  raised |-> FALSE, to_timezone |-> to_timezone]

\* CalendarServer.convert_time: the dictionary it returns, or the ValueError
\* of an unknown zone or of a text that is no ISO date.
convert_time(datetime_str, from_timezone, to_timezone) ==
    LET from_tz == timezone(from_timezone)
        to_tz == timezone(to_timezone)
        parsed == FromIsoFormatTz(datetime_str)
    IN  IF ~from_tz.ok \/ ~to_tz.ok \/ ~parsed.ok THEN [raised |-> TRUE]
        ELSE LET dt == IF ~parsed.aware THEN localize(parsed, from_tz.utcoffset)
                       ELSE astimezone(parsed, from_tz.utcoffset)
                 dt_converted == astimezone(dt, to_tz.utcoffset)
             IN  [converted_datetime |-> IsoFormatTz(dt_converted),
                  from_timezone |-> from_timezone,
                  original_datetime |-> IsoFormatTz(dt),
                  raised |-> FALSE, to_timezone |-> to_timezone]

\* CalendarServer.convert_time, called by a client.
ConvertTime(datetime_str, from_timezone, to_timezone) ==
    /\ call = Idle
    /\ call' = [args |-> [datetime_str |-> datetime_str,
                          from_timezone |-> from_timezone,
                          to_timezone |-> to_timezone],
                op |-> "convert_time",
                out |-> convert_time(datetime_str, from_timezone, to_timezone)]
    /\ UNCHANGED <<calendars, events, reminders, access_granted, today>>

ZoneInputs == {"UTC", "Asia/Tokyo", "Asia/Kolkata", "America/Phoenix", "Nowhere"}

DatetimeInputs ==
    {MalformedStr, EmptyStr, DateStr(0), DateTimeStr(0, Morning), DateTimeStr(1, EndOfDay)}
        \cup {OffsetDateTimeStr(d, t, utcoffset) :
                  d \in {0, 1}, t \in {Midnight, Morning, EndOfDay},
                  utcoffset \in {0, 540, 330, -420}}

NextConvert ==
    \/ /\ call = Idle
       /\ \E s \in DatetimeInputs, from_timezone \in ZoneInputs, to_timezone \in ZoneInputs :
              ConvertTime(s, from_timezone, to_timezone)
    \/ Respond

SpecConvert == InitOn({0}) /\ [][NextConvert]_vars

\* The instant an ISO text with offset denotes, as <<seconds, microseconds>>.
InstantOf(s) ==
    LET ts == Timestamp(Datetime(s.day, s.time))
    IN  <<ts[1] - s.utcoffset * 60, ts[2]>>

\* The wall-clock fields of an ISO text, read in the zone of the offset.
ReadIn(s, utcoffset) ==
    OffsetDateTimeStr(s.day, IF s.form = "date" THEN Midnight ELSE s.time, utcoffset)

\* The call is a convert_time that has returned a dictionary.
Converted == call.op = "convert_time" /\ ~call.out.raised

\* C26: convert_time reads the wall-clock fields of its input as time in
\* from_timezone, whether the input carries an offset (which is then
\* replaced, not composed) or not, and converts that to to_timezone.
C26_OffsetReplaced ==
    Converted
        => /\ call.out.original_datetime =
                  ReadIn(call.args.datetime_str, timezone(call.args.from_timezone).utcoffset)
           /\ InstantOf(call.out.converted_datetime) = InstantOf(call.out.original_datetime)
           /\ call.out.converted_datetime.utcoffset =
                  timezone(call.args.to_timezone).utcoffset

\* C26 as amended: an input without offset is read as wall-clock time in
\* from_timezone; an input with an offset keeps the instant its offset gives
\* and is expressed in from_timezone; either is then converted to to_timezone.
C26_OffsetComposed ==
    Converted
        => /\ call.args.datetime_str.form # "offset-datetime"
                  => call.out.original_datetime =
                         ReadIn(call.args.datetime_str,
                                timezone(call.args.from_timezone).utcoffset)
           /\ call.args.datetime_str.form = "offset-datetime"
                  => /\ InstantOf(call.out.original_datetime) =
                            InstantOf(call.args.datetime_str)
                     /\ call.out.original_datetime.utcoffset =
                            timezone(call.args.from_timezone).utcoffset
           /\ InstantOf(call.out.converted_datetime) = InstantOf(call.out.original_datetime)
           /\ call.out.converted_datetime.utcoffset =
                  timezone(call.args.to_timezone).utcoffset

\* C26, its case: an input whose offset is not that of from_timezone is
\* converted to another zone.
C26_Witness ==
    /\ Converted
    /\ call.args.datetime_str.form = "offset-datetime"
    /\ call.args.datetime_str.utcoffset # timezone(call.args.from_timezone).utcoffset
    /\ call.args.from_timezone # call.args.to_timezone
    /\ call.out.original_datetime.day # call.args.datetime_str.day

-----------------------------------------------------------------------------
(* The tools, one after the other: call_tool.  call keeps the call before   *)
(* the current one, prev, so that two calls in a row can be compared.  The  *)
(* value a tool returns stands for its JSON text.                           *)

\* pytz.all_timezones, each name as its parts: "Asia/Tokyo" is
\* <<"Asia", "/", "Tokyo">>.
all_timezones ==
    <<<<"America", "/", "Phoenix">>, <<"Asia", "/", "Kolkata">>,
      <<"Asia", "/", "Tokyo">>, <<"UTC">>>>

\* str.startswith
StartsWith(s, prefix) ==
    Len(prefix) <= Len(s) /\ SubSeq(s, 1, Len(prefix)) = prefix

\* CalendarServer.list_timezones
list_timezones(region) ==
    IF Truthy(region)
    THEN LET in_region(tz) == StartsWith(tz, region.text \o <<"/">>)
         IN  SelectSeq(all_timezones, in_region)
    ELSE all_timezones

\* CalendarServer.get_current_time; the clock of the model reads the start of
\* the day now_day, UTC.
get_current_time(tz_name, now_day) ==
    LET tz == timezone(tz_name)
        now == [aware |-> TRUE, dt |-> Datetime(now_day, Midnight), ok |-> TRUE,
                utcoffset |-> 0]
    IN  IF ~tz.ok THEN [raised |-> TRUE]
        ELSE [datetime |-> IsoFormatTz(astimezone(now, tz.utcoffset)),
              raised |-> FALSE, timestamp |-> Timestamp(now.dt),
              timezone |-> tz_name]

\* The names call_tool takes for get_events.
EventTools == {"get_calendar_events", "get_events"}

\* The tools of the time zone service.
TimeTools == {"get_current_time", "convert_time", "list_timezones"}

\* The tools that fetch reminders.
ReminderTools == {"get_reminders", "search", "get_today_summary"}

\* call_tool: what the tool returns, or that it raises.
ToolResult(name, arguments, in_time) ==
    CASE name \in EventTools -> get_events(arguments, calendars, events, today)
      [] name = "list_calendars" ->
             [raised |-> FALSE, result |-> get_calendars(calendars)]
      [] name = "get_reminders" ->
             get_reminders(arguments, calendars, reminders, today, in_time)
      [] name = "search" -> search(arguments, calendars, events, reminders, today, in_time)
      [] name = "get_today_summary" ->
             [raised |-> FALSE,
              result |-> get_today_summary(calendars, events, reminders, today, in_time)]
      [] name = "get_current_time" -> get_current_time(arguments.timezone, today)
      [] name = "convert_time" ->
             convert_time(arguments.datetime_str, arguments.from_timezone,
                          arguments.to_timezone)
      [] name = "list_timezones" ->
             [raised |-> FALSE, result |-> list_timezones(arguments.region)]
      [] OTHER -> [raised |-> TRUE]

\* ToolAccess with the access check in every tool.
ToolAccessEveryTool(name, arguments, out, flag, g1, g2) == AccessAfter(flag, g1)

\* access_granted after the tool: get_events, get_reminders and get_calendars
\* check it once, search once per query it reaches, get_today_summary twice,
\* and the time tools not at all; g1 and g2 are the outcomes of the handshakes.
ToolAccess(name, arguments, out, flag, g1, g2) ==
    CASE name \in EventTools \cup {"list_calendars", "get_reminders"} ->
             AccessAfter(flag, g1)
      [] name = "search" ->
             LET flag1 == IF arguments.search_events THEN AccessAfter(flag, g1) ELSE flag
             IN  IF out.reached_reminders THEN AccessAfter(flag1, g2) ELSE flag1
      [] name = "get_today_summary" -> AccessAfter(AccessAfter(flag, g1), g2)
      [] OTHER -> flag

\* The call, without the one before it.
Last(c) ==
    IF c = Idle THEN <<>>
    ELSE <<[arguments |-> c.arguments, in_time |-> c.in_time, name |-> c.name,
            out |-> c.out]>>

\* call_tool(name, arguments)
call_tool(name, arguments, in_time, g1, g2) ==
    /\ in_time \/ name \in ReminderTools
    /\ ~g2 \/ name \in {"search", "get_today_summary"}
    /\ g1 \/ ~access_granted
    /\ LET out == ToolResult(name, arguments, in_time)
       IN  /\ call' = [arguments |-> arguments, in_time |-> in_time, name |-> name,
                       op |-> "call_tool", out |-> out, prev |-> Last(call)]
           /\ access_granted' = ToolAccess(name, arguments, out, access_granted, g1, g2)
    /\ UNCHANGED <<calendars, events, reminders, today>>

ToolCalls ==
    {[name |-> "get_events",
      arguments |-> EventArgs(None, None, None, DefaultDaysAhead, None, None, FALSE, FALSE)],
     [name |-> "get_calendar_events",
      arguments |-> EventArgs(MalformedStr, None, None, DefaultDaysAhead, None, None,
                              FALSE, FALSE)],
     [name |-> "list_calendars", arguments |-> None],
     [name |-> "get_reminders",
      arguments |-> ReminderArgs(None, None, None, FALSE, DefaultDaysAhead)],
     [name |-> "search", arguments |-> SearchArgs(Str(<<"a">>), TRUE, TRUE, None, None)],
     [name |-> "get_today_summary", arguments |-> None],
     [name |-> "get_current_time", arguments |-> [timezone |-> "Asia/Tokyo"]],
     [name |-> "convert_time",
      arguments |-> [datetime_str |-> OffsetDateTimeStr(0, Morning, 330),
                     from_timezone |-> "UTC", to_timezone |-> "Asia/Tokyo"]],
     [name |-> "list_timezones", arguments |-> [region |-> Str(<<"Asia">>)]],
     [name |-> "delete_event", arguments |-> None]}

NextTools ==
    \/ /\ call = Idle
       /\ calendars = <<>>
       /\ AddCalendar("Work")
    \/ /\ call = Idle
       /\ events = <<>>
       /\ AddEvent(PlainEvent(<<"a">>, Datetime(0, Morning), Datetime(0, LastSecond), "Work"))
    \/ /\ call = Idle
       /\ reminders = <<>>
       /\ AddReminder(Reminder(Str(<<"a">>), "Work", None, FALSE, None, 0, Str(<<>>)))
    \/ /\ call.op \in {"idle", "call_tool"}
       /\ \E c \in ToolCalls, in_time \in BOOLEAN, g1 \in BOOLEAN, g2 \in BOOLEAN :
              call_tool(c.name, c.arguments, in_time, g1, g2)

SpecTools == InitOn({0}) /\ [][NextTools]_vars

\* A tool has been called in the step.
ToolStep == call' # Idle /\ call' # call

\* The step leaves the store and the clock as they are, and a time tool
\* leaves access_granted as it is.
FrameOfTools ==
    /\ UNCHANGED <<calendars, events, reminders, today>>
    /\ call'.name \in TimeTools => access_granted' = access_granted

\* The call repeats the call before it.
Repeats(c) ==
    /\ c.prev # <<>>
    /\ c.prev[1].name = c.name
    /\ c.prev[1].arguments = c.arguments

-----------------------------------------------------------------------------
(* Properties of the due dates under a date filter, checked under           *)
(* SpecReminders.                                                            *)

\* The call is a get_reminders with a start_date or an end_date that has
\* returned a list.
DateFiltered ==
    /\ call.op = "get_reminders"
    /\ ~call.out.raised
    /\ Truthy(call.args.start_date) \/ Truthy(call.args.end_date)

\* The dictionary carries a due date within the resolved range of the call.
DueStrWithin(d) ==
    /\ d.due_date_str # None
    /\ AtOrBefore(call.out.start_dt, FromIsoFormat(d.due_date_str).dt)
    /\ AtOrBefore(FromIsoFormat(d.due_date_str).dt, call.out.end_dt)

\* The dictionary is of a reminder of the store whose due components
\* datetime() rejects.
OfUnreconstructable(d) ==
    \E k \in 1..Len(reminders) :
        /\ reminders[k].due # None
        /\ ~reminders[k].due.valid
        /\ reminder_dict(reminders[k], None) = d

-----------------------------------------------------------------------------
(* Properties of concurrent handshakes, checked under SpecAccess. *)

\* C29: at most one handshake is in flight at any time: of the calls started
\* while access_granted is false, only one waits for a handshake.
C29_OneHandshakeInFlight ==
    Cardinality({i \in 1..Len(Tasks(call)) : Tasks(call)[i].pc = "handshake"}) <= 1

-----------------------------------------------------------------------------
(* Properties of a rejected call, checked under SpecRange. *)

\* C30: a get_events or get_reminders call that is rejected for a malformed
\* date leaves the state as it was: it makes no handshake and does not
\* change access_granted.
C30_RejectedCallChangesNothing ==
    [][(/\ call = Idle
        /\ call' # Idle
        /\ call'.op \in {"get_events", "get_reminders"}
        /\ call'.out.raised)
           => /\ access_granted' = access_granted
              /\ UNCHANGED <<calendars, events, reminders, today>>]_vars

=============================================================================
